---- MODULE Spec2Model ----
(***************************************************************************)
(* Model of the brandfetch-mcp logo resolution code:                       *)
(*   - brandfetch_logo_lookup_checked.py: the SQLite usage counter and the *)
(*     quota-checked orchestrator get_logo_for_domain;                     *)
(*   - brand_logo.py: LogoLookupCache and BrandLogoLookup.get_logo_url.    *)
(* Python strings are sequences of one-character strings, Optional values  *)
(* are sequences of length 0 (None) or 1.                                  *)
(***************************************************************************)
EXTENDS Integers, Sequences, FiniteSets, TLC

\* ---------------------------------------------------------------- bounds
NumProcs == 2          \* processes sharing the SQLite file
MaxCalls == 3          \* invocations started in one behaviour
MaxDelta == 2          \* largest delta passed to increment_brand_counter
MaxInitCount == 4      \* largest count stored before the behaviour starts

\* ------------------------------------------------- configuration (env vars)
BRAND_API_MONTH_LIMIT == 3
BRAND_API_WARN_THRESHOLD == 2

Procs == 1..NumProcs

\* ---------------------------------------------------------------- strings
LowerAlphabet == <<"a","b","c","d","e","f","g","h","i","j","k","l","m","n","o","p","q","r","s","t","u","v","w","x","y","z">>
UpperAlphabet == <<"A","B","C","D","E","F","G","H","I","J","K","L","M","N","O","P","Q","R","S","T","U","V","W","X","Y","Z">>
Digits == {"0","1","2","3","4","5","6","7","8","9"}
Whitespace == {" "}

Range(s) == {s[i] : i \in DOMAIN s}

\* str.lower() on one character
LowerChar(c) ==
  IF \E i \in DOMAIN UpperAlphabet : UpperAlphabet[i] = c
  THEN LowerAlphabet[CHOOSE i \in DOMAIN UpperAlphabet : UpperAlphabet[i] = c]
  ELSE c

\* str.lower()
Lower(s) == [i \in DOMAIN s |-> LowerChar(s[i])]

\* str.lstrip() / str.rstrip() / str.strip() for whitespace
RECURSIVE LStrip(_)
LStrip(s) == IF s # <<>> /\ Head(s) \in Whitespace THEN LStrip(Tail(s)) ELSE s

RECURSIVE RStrip(_)
RStrip(s) ==
  IF s # <<>> /\ s[Len(s)] \in Whitespace THEN RStrip(SubSeq(s, 1, Len(s) - 1)) ELSE s

Strip(s) == RStrip(LStrip(s))

\* the Python test "sub in s" on strings
Contains(s, sub) ==
  \E i \in 0..(Len(s) - Len(sub)) : SubSeq(s, i + 1, i + Len(sub)) = sub

\* str.endswith
EndsWith(s, suf) ==
  Len(suf) <= Len(s) /\ SubSeq(s, Len(s) - Len(suf) + 1, Len(s)) = suf

\* ------------------------------------------------------- inputs and replies
DomAcme == <<"a","c","m","e",".","c","o","m">>
DomAcmeRaw == <<" ","A","c","m","e",".","C","O","M"," ">>
DomBlank == <<" "," ">>
HintAcme == <<"A","c","m","e">>
UrlAcme == <<"h","t","t","p",":","/","/","c","d","n","/","a","c","m","e",".","c","o","m","/","a",".","p","n","g">>
UrlAcmeUpper == <<"h","t","t","p",":","/","/","c","d","n","/","A","C","M","E",".","c","o","m","/","a",".","p","n","g">>
UrlOther == <<"h","t","t","p",":","/","/","c","d","n","/","o","t","h","e","r",".","i","o","/","a",".","p","n","g">>
UrlDocs == <<"h","t","t","p",":","/","/","d","o","c","s","/","e","r","r">>
DomOther == <<"o","t","h","e","r",".","i","o">>

\* arguments of get_logo_for_domain
DomainInputs == {DomAcme, DomAcmeRaw, DomBlank, <<>>}
HintInputs == {<<>>, <<HintAcme>>}

\* keys of the response JSON that _domain_matches_logo_candidates reads
MatchKeys == {"host", "domain", "website", "url"}
NoFields == [k \in MatchKeys |-> <<>>]
DomainField(d) == [k \in MatchKeys |-> IF k = "domain" THEN <<d>> ELSE <<>>]
UrlField(u) == [k \in MatchKeys |-> IF k = "url" THEN <<u>> ELSE <<>>]

\* resp.json(): not a dict, or a dict seen through the keys the matcher reads
JsonNone == [isdict |-> FALSE, top |-> NoFields, data |-> <<>>, brand |-> <<>>]
JsonEmpty == [isdict |-> TRUE, top |-> NoFields, data |-> <<>>, brand |-> <<>>]
JsonTop(f) == [isdict |-> TRUE, top |-> f, data |-> <<>>, brand |-> <<>>]
JsonBrand(f) == [isdict |-> TRUE, top |-> NoFields, data |-> <<>>, brand |-> <<f>>]

Reply(status, cands, json) == [status_code |-> status, candidates |-> cands, json |-> json]

\* what call_logo_api / call_brand_api_search return when the request raised
NetworkError == Reply("None", <<>>, JsonNone)

\* dicts returned by call_logo_api
LogoReplies ==
  { NetworkError,
    Reply("404", <<>>, JsonEmpty),
    Reply("404", <<UrlAcme>>, JsonTop(DomainField(DomAcme))),
    Reply("200", <<>>, JsonTop(DomainField(DomAcme))),
    Reply("200", <<UrlAcme>>, JsonEmpty),
    Reply("200", <<UrlAcmeUpper>>, JsonNone),
    Reply("200", <<UrlOther, UrlAcme>>, JsonEmpty),
    Reply("200", <<UrlOther>>, JsonTop(DomainField(DomAcme))),
    Reply("200", <<UrlOther>>, JsonBrand(UrlField(UrlAcmeUpper))),
    Reply("200", <<UrlOther>>, JsonTop(DomainField(DomOther))) }

\* dicts returned by call_brand_api_search
BrandReplies ==
  { NetworkError,
    Reply("200", <<>>, JsonNone),
    Reply("200", <<UrlOther, UrlAcme>>, JsonNone),
    Reply("401", <<>>, JsonEmpty),
    Reply("429", <<UrlDocs>>, JsonEmpty) }

VARIABLES
  row,     \* rows of brand_api_usage for the current month: <<>> or <<count>>
  env,     \* which API keys the environment sets
  proc,    \* per process: position and locals of the running call
  calls,   \* invocations started so far
  hist     \* history: count at start, deltas of completed increments, answered searches

counterVars == <<row, env, proc, calls, hist>>

\* ============================================================ brand_logo.py
\* BrandLogoLookup.get_logo_url with LogoLookupCache, one task at a time.
MaxLogoCalls == 2      \* get_logo_url invocations in one behaviour

HeuristicLimit == 5    \* candidates[:5]

CdnTemplate == <<"h","t","t","p","s",":","/","/","c","d","n",".","b","r","a","n","d","f","e","t","c","h",".","i","o","/">>
RedisPrefix == <<"b","r","a","n","d","f","e","t","c","h",":","l","o","g","o",":">>
DomainKeyPrefix == <<"d","o","m","a","i","n",":">>
NameKeyPrefix == <<"n","a","m","e",":">>
Www == <<"w","w","w",".">>
WwwAcme == <<"w","w","w",".","a","c","m","e",".","c","o","m">>
NameAcmeInc == <<"A","c","m","e"," ","I","n","c",".">>
NameCo == <<"C","o">>

\* self.common_tlds
common_tlds ==
  << <<".","c","o","m">>, <<".","c","o">>, <<".","i","o">>, <<".","n","e","t">>,
     <<".","o","r","g">>, <<".","a","p","p">>, <<".","d","e","v">> >>

\* suffixes, in the order the loop visits them
suffixes ==
  << <<"i","n","c">>, <<"l","l","c">>, <<"c","o","r","p">>,
     <<"c","o","r","p","o","r","a","t","i","o","n">>, <<"c","o","m","p","a","n","y">>,
     <<"c","o">>, <<"l","t","d">>, <<"l","i","m","i","t","e","d">>,
     <<"g","r","o","u","p">>, <<"l","a","b","s">>, <<"s","t","u","d","i","o">> >>

\* arguments of get_logo_url: None, "", or a string
LogoDomainInputs == {<<>>, <<<<>>>>, <<DomOther>>}
LogoNameInputs == {<<>>, <<<<>>>>, <<NameAcmeInc>>, <<NameCo>>}

\* domains the CDN is asked about
ProbeDomains == {DomAcme, WwwAcme, DomOther}

\* truth value of an Optional[str]
Truthy(opt) == opt # <<>> /\ opt[1] # <<>>

\* \w of the regular expression
WordChars == Range(LowerAlphabet) \cup Range(UpperAlphabet) \cup Digits \cup {"_"}

RECURSIVE KeepChars(_, _)
KeepChars(s, keep) ==
  IF s = <<>> THEN <<>>
  ELSE (IF Head(s) \in keep THEN <<Head(s)>> ELSE <<>>) \o KeepChars(Tail(s), keep)

\* str.rstrip(c)
RECURSIVE RStripChar(_, _)
RStripChar(s, c) ==
  IF s # <<>> /\ s[Len(s)] = c THEN RStripChar(SubSeq(s, 1, Len(s) - 1), c) ELSE s

\* for suffix in suffixes: if normalized.endswith(suffix): cut it, rstrip('-')
RECURSIVE StripSuffixes(_, _)
StripSuffixes(s, i) ==
  IF i > Len(suffixes) THEN s
  ELSE StripSuffixes(
         IF EndsWith(s, suffixes[i])
         THEN RStripChar(SubSeq(s, 1, Len(s) - Len(suffixes[i])), "-")
         ELSE s,
         i + 1)

_normalize_name_for_domain(name) ==
  IF name = <<>> THEN <<>>
  ELSE LET lowered == Lower(name)
           nopunct == KeepChars(lowered, WordChars \cup Whitespace \cup {"-"})
           nospace == KeepChars(nopunct, (WordChars \cup {"-"}))
       IN StripSuffixes(nospace, 1)

\* a slip: every bare name first, then the www. variants
_generate_domain_candidates_bare_first(name) ==
  LET n == _normalize_name_for_domain(name)
      k == Len(common_tlds)
  IN IF n = <<>> THEN <<>>
     ELSE [i \in 1..(2 * k) |->
             IF i <= k THEN n \o common_tlds[i] ELSE Www \o n \o common_tlds[i - k]]

_generate_domain_candidates(name) ==
  LET n == _normalize_name_for_domain(name) IN
  IF n = <<>> THEN <<>>
  ELSE [i \in 1..(2 * Len(common_tlds)) |->
          IF i % 2 = 1 THEN n \o common_tlds[(i + 1) \div 2]
          ELSE Www \o n \o common_tlds[i \div 2]]

\* a slip: the list is not cut to its first five
FirstCandidatesUncut(name) == _generate_domain_candidates(name)

\* candidates[:5]
FirstCandidates(name) ==
  LET c == _generate_domain_candidates(name) IN
  SubSeq(c, 1, IF Len(c) < HeuristicLimit THEN Len(c) ELSE HeuristicLimit)

\* a slip: the template without the domain
CdnUrlOfTemplate(domain) == CdnTemplate

\* self.cdn_template.format(domain=domain)
CdnUrl(domain) == CdnTemplate \o domain

\* outcome of client.head / client.get: a status, or the exception raised
HeadOutcomes == {"200", "403", "405", "404", "timeout", "error"}
GetOutcomes == {"206", "404", "timeout"}

\* a slip: a HEAD answered 405/403 is taken as success whatever the GET does
_validate_cdn_url_blocked_ok(domain, head, get) ==
  IF head = "200" THEN <<CdnUrl(domain)>>
  ELSE IF head \in {"405", "403"} THEN <<CdnUrl(domain)>>
  ELSE <<>>

_validate_cdn_url(domain, head, get) ==
  IF head = "200" THEN <<CdnUrl(domain)>>
  ELSE IF head \in {"405", "403"} /\ get = "206" THEN <<CdnUrl(domain)>>
  ELSE <<>>

\* what the CDN did to the last request of a probe: the request raised, or
\* the response has the status that counts as found, or another status
ProbeClass(head, get) ==
  LET last == IF head \in {"405", "403"} THEN get ELSE head IN
  IF last \in {"timeout", "error"} THEN "raised"
  ELSE IF last \in {"200", "206"} THEN "found"
  ELSE "http_error"

\* replies to GET /v2/search/{name}: status (or exception), whether the body is
\* a list, and the "domain" of each result
SearchReply(status, islist, results) ==
  [status |-> status, islist |-> islist, results |-> results]

SearchReplies ==
  { SearchReply("200", TRUE, << <<DomAcme>> >>),
    SearchReply("200", TRUE, << <<DomOther>>, <<DomAcme>> >>),
    SearchReply("200", TRUE, << <<>>, <<DomAcme>> >>),
    SearchReply("200", TRUE, <<>>),
    SearchReply("200", FALSE, <<>>),
    SearchReply("401", FALSE, <<>>),
    SearchReply("500", FALSE, <<>>),
    SearchReply("timeout", FALSE, <<>>) }

\* what _search_brandfetch_api returns for a reply
SearchResult(reply) ==
  IF reply.status = "200" /\ reply.islist /\ reply.results # <<>> /\ Truthy(reply.results[1])
  THEN reply.results[1]
  ELSE <<>>

\* repr(value) of {"url": ..., "source": ...} and eval of it
PyNone == <<"N","o","n","e">>
Quote == <<"'">>
ReprOpt(opt) == IF opt = <<>> THEN PyNone ELSE Quote \o opt[1] \o Quote
EvalOpt(text) ==
  IF text = PyNone THEN <<>> ELSE <<SubSeq(text, 2, Len(text) - 1)>>
Repr(value) == <<ReprOpt(value.url), ReprOpt(<<value.source>>)>>
Eval(text) == [url |-> EvalOpt(text[1]), source |-> EvalOpt(text[2])[1]]

VARIABLES
  live,         \* domains whose CDN probe succeeds
  lenv,         \* whether redis_client and api_key are set
  cache_mem,    \* LogoLookupCache.memory_cache
  cache_redis,  \* the Redis store
  task,         \* the running get_logo_url call
  lcalls        \* get_logo_url invocations started

logoVars == <<live, lenv, cache_mem, cache_redis, task, lcalls>>

VARIABLES
  sem,     \* api_semaphore: the free slots
  stask,   \* per task: position inside _search_brandfetch_api
  norm,    \* the _normalize_domain call
  client,  \* the BrandfetchClient call (get_brand, get_brand_logo)
  tool,    \* the call_tool call
  cop      \* the LogoLookupCache.get / set call made directly

appVars == <<sem, stask, norm, client, tool, cop>>

vars ==
  <<row, env, proc, calls, hist, live, lenv, cache_mem, cache_redis, task, lcalls,
    sem, stask, norm, client, tool, cop>>

SourceNone == <<"n","o","n","e">>
SourceCdn == <<"c","d","n","_","d","o","m","a","i","n">>
SourceHeuristic == <<"h","e","u","r","i","s","t","i","c","_","g","u","e","s","s">>
SourceSearch == <<"b","r","a","n","d","_","s","e","a","r","c","h">>

Entry(url, source) == [url |-> url, source |-> source]

Remove(f, k) == [x \in (DOMAIN f) \ {k} |-> f[x]]
Put(f, k, v) == [x \in (DOMAIN f) \cup {k} |-> IF x = k THEN v ELSE f[x]]

\* a slip: the in-process map is asked first
CacheLookupInMemoryFirst(mem, redis, key, redisOk) ==
  IF key \in DOMAIN mem THEN <<mem[key]>>
  ELSE IF /\ lenv.redis
          /\ redisOk
          /\ (RedisPrefix \o key) \in DOMAIN redis
       THEN <<Eval(redis[RedisPrefix \o key])>>
  ELSE <<>>

\* LogoLookupCache.get on given stores; redisOk: the Redis call did not raise
CacheLookupIn(mem, redis, key, redisOk) ==
  IF /\ lenv.redis
     /\ redisOk
     /\ (RedisPrefix \o key) \in DOMAIN redis
  THEN <<Eval(redis[RedisPrefix \o key])>>
  ELSE IF key \in DOMAIN mem THEN <<mem[key]>> ELSE <<>>

CacheLookup(key, redisOk) == CacheLookupIn(cache_mem, cache_redis, key, redisOk)

\* cache_key = f"domain:{domain}" if domain else f"name:{name}"
CacheKey(domain, name) ==
  IF Truthy(domain) THEN DomainKeyPrefix \o domain[1] ELSE NameKeyPrefix \o name[1]

\* a slip: a cached "none" outcome is not taken as a hit
IsHitWithUrl(cached) == cached # <<>> /\ cached[1].url # <<>>

\* if cached_result:
IsHit(cached) == cached # <<>>

\* a slip: "if name" instead of "elif name", the name is tried after a failed domain
NextAfterDomainProbeFallsBack(name, result_url) ==
  IF result_url = <<>> /\ Truthy(name) THEN "heur" ELSE "cache_set"

\* if domain: ... elif name: the name path is skipped when a domain was given
NextAfterDomainProbe(name, result_url) == "cache_set"

\* a slip: the search runs whether or not a heuristic succeeded
NeedsSearchAlways(result_url) == TRUE

\* if not result_url:
NeedsSearch(result_url) == result_url = <<>>

\* a slip: negative outcomes are not cached
ShouldCacheFound(result_url, source) == result_url # <<>>

\* if result_url or source == "none":
ShouldCache(result_url, source) == result_url # <<>> \/ source = SourceNone

LIdle ==
  [pc |-> "idle", domain |-> <<>>, name |-> <<>>, key |-> <<>>, cached |-> <<>>,
   idx |-> 1, result_url |-> <<>>, source |-> SourceNone, found |-> <<>>,
   hit |-> FALSE, probes |-> <<>>, nSearch |-> 0, nSet |-> 0,
   setKey |-> <<>>, setVal |-> <<>>, lastProbe |-> "", searchStatus |-> "",
   ret |-> <<>>]

\* the (head, get) outcomes the CDN gives for a domain
ProbeOutcomes(d) ==
  {o \in HeadOutcomes \X GetOutcomes : (_validate_cdn_url(d, o[1], o[2]) # <<>>) <=> (d \in live)}

Probed(d, r, phase) == [domain |-> d, ok |-> r # <<>>, phase |-> phase]

\* get_logo_url(domain, name): the argument test and the cache key
GetLogoUrl(domain, name) ==
  /\ task.pc = "idle"
  /\ lcalls < MaxLogoCalls
  /\ lcalls' = lcalls + 1
  /\ task' =
       IF ~Truthy(domain) /\ ~Truthy(name)
       THEN [LIdle EXCEPT !.pc = "done", !.domain = domain, !.name = name,
                          !.ret = <<Entry(<<>>, SourceNone)>>]
       ELSE [LIdle EXCEPT !.pc = "cache_get", !.domain = domain, !.name = name,
                          !.key = CacheKey(domain, name)]
  /\ UNCHANGED <<live, lenv, cache_mem, cache_redis>>
  /\ UNCHANGED <<counterVars, appVars>>

\* cached_result = await self.cache.get(cache_key) and the hit return
CacheGet(redisOk) ==
  LET c == CacheLookup(task.key, redisOk) IN
  /\ task.pc = "cache_get"
  /\ task' =
       IF IsHit(c)
       THEN [task EXCEPT !.pc = "done", !.cached = c, !.hit = (c # <<>>),
                         !.ret = <<Entry(c[1].url, c[1].source)>>]
       ELSE [task EXCEPT !.cached = c, !.hit = (c # <<>>),
                         !.pc = IF Truthy(task.domain) THEN "probe_domain"
                                ELSE IF FirstCandidates(task.name[1]) # <<>> THEN "heur"
                                ELSE IF NeedsSearch(<<>>) THEN "search"
                                ELSE "cache_set"]
  /\ UNCHANGED <<live, lenv, cache_mem, cache_redis, lcalls>>
  /\ UNCHANGED <<counterVars, appVars>>

\* result_url = await self._validate_cdn_url(domain)
ProbeDomain(head, get) ==
  LET d == task.domain[1]
      r == _validate_cdn_url(d, head, get)
  IN
  /\ task.pc = "probe_domain"
  /\ <<head, get>> \in ProbeOutcomes(d)
  /\ task' = [task EXCEPT !.result_url = r,
                          !.source = IF r # <<>> THEN SourceCdn ELSE @,
                          !.probes = Append(@, Probed(d, r, "domain")),
                          !.lastProbe = ProbeClass(head, get),
                          !.pc = NextAfterDomainProbe(task.name, r)]
  /\ UNCHANGED <<live, lenv, cache_mem, cache_redis, lcalls>>
  /\ UNCHANGED <<counterVars, appVars>>

\* one turn of "for candidate in candidates[:5]", and the test after the loop
ProbeCandidate(head, get) ==
  LET cands == FirstCandidates(task.name[1])
      d == cands[task.idx]
      r == _validate_cdn_url(d, head, get)
      last == r # <<>> \/ task.idx = Len(cands)
  IN
  /\ task.pc = "heur"
  /\ task.idx \in DOMAIN cands
  /\ <<head, get>> \in ProbeOutcomes(d)
  /\ task' = [task EXCEPT !.result_url = r,
                          !.source = IF r # <<>> THEN SourceHeuristic ELSE @,
                          !.probes = Append(@, Probed(d, r, "heuristic")),
                          !.lastProbe = ProbeClass(head, get),
                          !.idx = @ + 1,
                          !.pc = IF ~last THEN "heur"
                                 ELSE IF NeedsSearch(r) THEN "search"
                                 ELSE "cache_set"]
  /\ UNCHANGED <<live, lenv, cache_mem, cache_redis, lcalls>>
  /\ UNCHANGED <<counterVars, appVars>>

\* found_domain = await self._search_brandfetch_api(name)
SearchApi(reply) ==
  LET found == IF lenv.api_key THEN SearchResult(reply) ELSE <<>> IN
  /\ task.pc = "search"
  /\ task' = [task EXCEPT !.found = found,
                          !.nSearch = IF lenv.api_key THEN @ + 1 ELSE @,
                          !.searchStatus = IF lenv.api_key THEN reply.status ELSE @,
                          !.pc = IF Truthy(found) THEN "reprobe" ELSE "cache_set"]
  /\ UNCHANGED <<live, lenv, cache_mem, cache_redis, lcalls>>
  /\ UNCHANGED <<counterVars, appVars>>

\* result_url = await self._validate_cdn_url(found_domain)
Reprobe(head, get) ==
  LET d == task.found[1]
      r == _validate_cdn_url(d, head, get)
  IN
  /\ task.pc = "reprobe"
  /\ <<head, get>> \in ProbeOutcomes(d)
  /\ task' = [task EXCEPT !.result_url = r,
                          !.source = IF r # <<>> THEN SourceSearch ELSE @,
                          !.probes = Append(@, Probed(d, r, "search")),
                          !.lastProbe = ProbeClass(head, get),
                          !.pc = "cache_set"]
  /\ UNCHANGED <<live, lenv, cache_mem, cache_redis, lcalls>>
  /\ UNCHANGED <<counterVars, appVars>>

\* await self.cache.set(cache_key, {...}) when the test allows it, and the return
CacheSet(redisOk) ==
  LET value == Entry(task.result_url, task.source) IN
  /\ task.pc = "cache_set"
  /\ IF ShouldCache(task.result_url, task.source)
     THEN /\ cache_redis' =
               IF lenv.redis /\ redisOk
               THEN Put(cache_redis, RedisPrefix \o task.key, Repr(value))
               ELSE cache_redis
          /\ cache_mem' = Put(cache_mem, task.key, value)
          /\ task' = [task EXCEPT !.pc = "done", !.ret = <<value>>, !.nSet = @ + 1,
                                  !.setKey = task.key, !.setVal = <<value>>]
     ELSE /\ task' = [task EXCEPT !.pc = "done", !.ret = <<value>>]
          /\ UNCHANGED <<cache_mem, cache_redis>>
  /\ UNCHANGED <<live, lenv, lcalls>>
  /\ UNCHANGED <<counterVars, appVars>>

\* the caller takes the pair
LogoFinish ==
  /\ task.pc = "done"
  /\ task' = LIdle
  /\ UNCHANGED <<live, lenv, cache_mem, cache_redis, lcalls>>
  /\ UNCHANGED <<counterVars, appVars>>

\* an entry leaves the in-process map (TTL or maxsize)
ExpireMemory(k) ==
  /\ k \in DOMAIN cache_mem
  /\ cache_mem' = Remove(cache_mem, k)
  /\ UNCHANGED <<live, lenv, cache_redis, task, lcalls>>
  /\ UNCHANGED <<counterVars, appVars>>

\* an entry leaves Redis (setex TTL)
ExpireRedis(k) ==
  /\ k \in DOMAIN cache_redis
  /\ cache_redis' = Remove(cache_redis, k)
  /\ UNCHANGED <<live, lenv, cache_mem, task, lcalls>>
  /\ UNCHANGED <<counterVars, appVars>>

\* no get_logo_url activity (the other specifications)
LogoQuiet ==
  /\ live = {}
  /\ lenv = [redis |-> FALSE, api_key |-> FALSE]
  /\ cache_mem = <<>>
  /\ cache_redis = <<>>
  /\ task = LIdle
  /\ lcalls = 0

\* ----------------------------------------------------------- usage counter
\* int(row[0]) if row else 0
CountOf(r) == IF r # <<>> THEN r[1] ELSE 0

\* get_brand_count: SELECT count FROM brand_api_usage WHERE month = ?
get_brand_count == CountOf(row)

Idle ==
  [pc |-> "idle", op |-> "", domain |-> <<>>, query |-> <<>>, delta |-> 0,
   sel |-> <<>>, new_count |-> 0, current_count |-> 0, warning |-> "absent",
   dresp |-> <<>>, bresp |-> <<>>, row0 |-> <<>>, nSearch |-> 0, nWrites |-> 0,
   result |-> <<>>]

\* result dicts; a key the dict does not have is <<>> / "" / "absent"
Success(url, source, count, warning) ==
  [kind |-> "ok", logo_url |-> <<url>>, source |-> source, error |-> "",
   count |-> <<count>>, warning |-> warning]
Failure(error, count, warning) ==
  [kind |-> "error", logo_url |-> <<>>, source |-> "", error |-> error,
   count |-> count, warning |-> warning]
Raised(exc) ==
  [kind |-> "raise", logo_url |-> <<>>, source |-> "", error |-> exc,
   count |-> <<>>, warning |-> "absent"]
Counted(count) ==
  [kind |-> "count", logo_url |-> <<>>, source |-> "", error |-> "",
   count |-> <<count>>, warning |-> "absent"]

Return(p, r) == [proc[p] EXCEPT !.pc = "done", !.result = <<r>>]

\* a slip: the delta is not added
NewCountNoAdd(sel, delta) == sel[1]

\* new_count = int(row[0]) + delta
NewCount(sel, delta) == sel[1] + delta

\* increment_brand_counter(delta), direct call
IncCall(p, d) ==
  /\ proc[p].pc = "idle"
  /\ calls < MaxCalls
  /\ proc' = [proc EXCEPT ![p] =
       [Idle EXCEPT !.pc = "inc_select", !.op = "inc", !.delta = d, !.row0 = row]]
  /\ calls' = calls + 1
  /\ UNCHANGED <<row, env, hist>>
  /\ UNCHANGED <<logoVars, appVars>>

\* conn.execute("SELECT count ..."); row = cur.fetchone()
\* (sqlite3 opens no transaction for a SELECT: the read is its own step)
IncSelect(p) ==
  /\ proc[p].pc = "inc_select"
  /\ proc' = [proc EXCEPT ![p].sel = row, ![p].pc = "inc_write"]
  /\ UNCHANGED <<row, env, calls, hist>>
  /\ UNCHANGED <<logoVars, appVars>>

\* the UPDATE or INSERT and the commit at the end of "with conn:"
IncWrite(p) ==
  LET me == proc[p]
      after(n) == IF me.op = "inc" THEN Return(p, Counted(n))
                  ELSE [me EXCEPT !.pc = "pick", !.new_count = n]
  IN
  /\ me.pc = "inc_write"
  /\ IF me.sel # <<>>
     THEN LET n == NewCount(me.sel, me.delta) IN
          /\ row' = <<n>>
          /\ proc' = [proc EXCEPT ![p] = [after(n) EXCEPT !.nWrites = @ + 1]]
          /\ hist' = [hist EXCEPT !.sum = @ + me.delta]
     ELSE IF row # <<>>
     THEN \* INSERT on an existing primary key: sqlite3.IntegrityError, rolled back
          /\ proc' = [proc EXCEPT ![p] = Return(p, Raised("IntegrityError"))]
          /\ UNCHANGED <<row, hist>>
     ELSE /\ row' = <<me.delta>>
          /\ proc' = [proc EXCEPT ![p] = [after(me.delta) EXCEPT !.nWrites = @ + 1]]
          /\ hist' = [hist EXCEPT !.sum = @ + me.delta]
  /\ UNCHANGED <<env, calls>>
  /\ UNCHANGED <<logoVars, appVars>>

\* the caller takes the result; the process is free for the next call
Finish(p) ==
  /\ proc[p].pc = "done"
  /\ proc' = [proc EXCEPT ![p] = Idle]
  /\ UNCHANGED <<row, env, calls, hist>>
  /\ UNCHANGED <<logoVars, appVars>>

\* -------------------------------------------------- get_logo_for_domain
\* _domain_matches_logo_candidates
FieldsMatch(domain, f) ==
  \E k \in MatchKeys : f[k] # <<>> /\ Contains(Lower(f[k][1]), domain)

DataOf(json) ==
  IF json.data # <<>> THEN json.data ELSE json.brand

\* a slip: the candidate is compared without c.lower()
_domain_matches_case_sensitive(domain, candidates, json) ==
  LET d == Lower(domain) IN
  \/ \E i \in DOMAIN candidates :
       candidates[i] # <<>> /\ Contains(candidates[i], d)
  \/ /\ json.isdict
     /\ \/ FieldsMatch(d, json.top)
        \/ DataOf(json) # <<>> /\ FieldsMatch(d, DataOf(json)[1])

_domain_matches_logo_candidates(domain, candidates, json) ==
  LET d == Lower(domain) IN
  \/ \E i \in DOMAIN candidates :
       candidates[i] # <<>> /\ Contains(Lower(candidates[i]), d)
  \/ /\ json.isdict
     /\ \/ FieldsMatch(d, json.top)
        \/ DataOf(json) # <<>> /\ FieldsMatch(d, DataOf(json)[1])

\* domain_resp.get("status_code") == 200 and domain_candidates and the match
DomainLogoAccepted(domain, resp) ==
  /\ resp.status_code = "200"
  /\ resp.candidates # <<>>
  /\ _domain_matches_logo_candidates(domain, resp.candidates, resp.json)

\* a slip: > instead of >=
LimitReachedStrict(count) == count > BRAND_API_MONTH_LIMIT

\* current_count >= BRAND_API_MONTH_LIMIT
LimitReached(count) == count >= BRAND_API_MONTH_LIMIT

\* a slip: > instead of >=
NearLimitStrict(count) == count > BRAND_API_WARN_THRESHOLD

\* current_count >= BRAND_API_WARN_THRESHOLD
NearLimit(count) == count >= BRAND_API_WARN_THRESHOLD

\* a slip: the network-error return is missing
NoHttpResponseIgnored(resp) == FALSE

\* brand_resp.get("status_code") is None
NoHttpResponse(resp) == resp.status_code = "None"

\* domain = domain.strip().lower(); empty -> invalid_domain
Start(p, domain, hint) ==
  LET d == Lower(Strip(domain)) IN
  /\ proc[p].pc = "idle"
  /\ calls < MaxCalls
  /\ calls' = calls + 1
  /\ proc' = [proc EXCEPT ![p] =
       IF d = <<>>
       THEN [Idle EXCEPT !.pc = "done", !.op = "logo", !.row0 = row,
                         !.result = <<Failure("invalid_domain", <<>>, "absent")>>]
       ELSE [Idle EXCEPT !.pc = "logo_api", !.op = "logo", !.row0 = row, !.domain = d,
                         !.query = IF hint # <<>> /\ hint[1] # <<>> THEN hint[1] ELSE d]]
  /\ UNCHANGED <<row, env, hist>>
  /\ UNCHANGED <<logoVars, appVars>>

\* domain_resp = await call_logo_api(domain)
CallLogoApi(p, resp) ==
  /\ proc[p].pc = "logo_api"
  /\ proc' = [proc EXCEPT ![p] =
       IF ~env.LOGO_API_KEY
       THEN Return(p, Raised("RuntimeError"))
       ELSE [proc[p] EXCEPT !.pc = "count", !.dresp = <<resp>>]]
  /\ UNCHANGED <<row, env, calls, hist>>
  /\ UNCHANGED <<logoVars, appVars>>

\* the match test, then get_brand_count() on either branch, the limit test
\* and the warning
GetBrandCount(p) ==
  LET me == proc[p]
      count == get_brand_count
  IN
  /\ me.pc = "count"
  /\ proc' = [proc EXCEPT ![p] =
       IF DomainLogoAccepted(me.domain, me.dresp[1])
       THEN Return(p, Success(me.dresp[1].candidates[1], "domain-logo", count, "absent"))
       ELSE IF LimitReached(count)
       THEN [Return(p, Failure("brand_api_limit_reached", <<count>>, "absent"))
               EXCEPT !.current_count = count]
       ELSE [me EXCEPT !.pc = "brand_api", !.current_count = count,
                       !.warning = IF NearLimit(count) THEN "warning" ELSE "None"]]
  /\ UNCHANGED <<row, env, calls, hist>>
  /\ UNCHANGED <<logoVars, appVars>>

\* brand_resp = await call_brand_api_search(query) and the network-error return
CallBrandApiSearch(p, resp) ==
  LET me == proc[p] IN
  /\ me.pc = "brand_api"
  /\ IF ~env.BRAND_API_KEY
     THEN /\ proc' = [proc EXCEPT ![p] = Return(p, Raised("RuntimeError"))]
          /\ UNCHANGED hist
     ELSE IF NoHttpResponse(resp)
     THEN /\ proc' = [proc EXCEPT ![p] =
               [Return(p, Failure("brand_api_network_error", <<me.current_count>>, "absent"))
                  EXCEPT !.bresp = <<resp>>, !.nSearch = @ + 1]]
          /\ UNCHANGED hist
     ELSE /\ proc' = [proc EXCEPT ![p] =
               [me EXCEPT !.pc = "inc_select", !.delta = 1, !.bresp = <<resp>>,
                          !.nSearch = @ + 1]]
          /\ hist' = [hist EXCEPT !.responded = @ + 1]
  /\ UNCHANGED <<row, env, calls>>
  /\ UNCHANGED <<logoVars, appVars>>

\* best = brand_candidates[0] if brand_candidates else None, and the two returns
PickBest(p) ==
  LET me == proc[p]
      cands == me.bresp[1].candidates
  IN
  /\ me.pc = "pick"
  /\ proc' = [proc EXCEPT ![p] =
       IF cands # <<>> /\ cands[1] # <<>>
       THEN Return(p, Success(cands[1], "brand-search", me.new_count, me.warning))
       ELSE Return(p, Failure("no_logo_found", <<me.new_count>>, me.warning))]
  /\ UNCHANGED <<row, env, calls, hist>>
  /\ UNCHANGED <<logoVars, appVars>>

\* ------------------------------------------------- search-API semaphore
NumTasks == 6

\* asyncio.Semaphore(5)
SemaphoreSlots == 5

Tasks == 1..NumTasks

\* replies to the search request of one task
SemReplies ==
  { SearchReply("200", TRUE, << <<DomAcme>> >>),
    SearchReply("200", TRUE, <<>>),
    SearchReply("401", FALSE, <<>>),
    SearchReply("timeout", FALSE, <<>>) }

SIdle == [pc |-> "idle", found |-> <<>>]

\* a slip: acquire never waits
SemFreeAlways(value) == TRUE

\* Semaphore.acquire goes on without waiting
SemFree(value) == value > 0

\* _search_brandfetch_api(name): the api_key test
SearchEnter(t) ==
  /\ stask[t].pc = "idle"
  /\ stask' = [stask EXCEPT ![t] =
       IF lenv.api_key THEN [SIdle EXCEPT !.pc = "acquire"]
       ELSE [SIdle EXCEPT !.pc = "done"]]
  /\ UNCHANGED <<sem, norm, client, tool, cop>>
  /\ UNCHANGED <<counterVars, logoVars>>

\* async with self.api_semaphore: the slot is taken and the GET is sent
SemAcquire(t) ==
  /\ stask[t].pc = "acquire"
  /\ SemFree(sem)
  /\ sem' = sem - 1
  /\ stask' = [stask EXCEPT ![t].pc = "request"]
  /\ UNCHANGED <<norm, client, tool, cop>>
  /\ UNCHANGED <<counterVars, logoVars>>

\* a slip: the slot is given back only when the request succeeded
SemReleaseOnSuccess(value, reply) == IF reply.status = "200" THEN value + 1 ELSE value

\* async with: __aexit__ releases the slot, whatever ended the block
SemRelease(value, reply) == value + 1

\* the GET answers or raises; the with block is left and the slot given back
SearchReplied(t, reply) ==
  /\ stask[t].pc = "request"
  /\ sem' = SemRelease(sem, reply)
  /\ stask' = [stask EXCEPT ![t] = [pc |-> "done", found |-> SearchResult(reply)]]
  /\ UNCHANGED <<norm, client, tool, cop>>
  /\ UNCHANGED <<counterVars, logoVars>>

\* the caller takes the result; the task may search again
SearchLeave(t) ==
  /\ stask[t].pc = "done"
  /\ stask' = [stask EXCEPT ![t] = SIdle]
  /\ UNCHANGED <<sem, norm, client, tool, cop>>
  /\ UNCHANGED <<counterVars, logoVars>>

SemQuiet ==
  /\ sem = SemaphoreSlots
  /\ stask = [t \in Tasks |-> SIdle]

\* ------------------------------------------ BrandfetchClient._normalize_domain
\* len(domain) < 4
MinDomainLen == 4

Https == <<"h","t","t","p","s",":","/","/">>
Http == <<"h","t","t","p",":","/","/">>

\* str.startswith
StartsWith(s, pre) == Len(pre) <= Len(s) /\ SubSeq(s, 1, Len(pre)) = pre

\* str.replace(sub, "")
RECURSIVE RemoveAll(_, _)
RemoveAll(s, sub) ==
  IF Len(s) < Len(sub) THEN s
  ELSE IF SubSeq(s, 1, Len(sub)) = sub
       THEN RemoveAll(SubSeq(s, Len(sub) + 1, Len(s)), sub)
       ELSE <<Head(s)>> \o RemoveAll(Tail(s), sub)

\* str.split(c)[0]
RECURSIVE Before(_, _)
Before(s, c) ==
  IF s = <<>> \/ Head(s) = c THEN <<>> ELSE <<Head(s)>> \o Before(Tail(s), c)

\* str.strip(c)
RECURSIVE LStripChar(_, _)
LStripChar(s, c) == IF s # <<>> /\ Head(s) = c THEN LStripChar(Tail(s), c) ELSE s

StripChar(s, c) == RStripChar(LStripChar(s, c), c)

\* the value returned, or the ValueError raised with its message
Returned(v) == [ok |-> TRUE, value |-> v, error |-> ""]
ValueError(msg, v) == [ok |-> FALSE, value |-> v, error |-> msg]

_normalize_domain(domain) ==
  IF domain = <<>> THEN ValueError("Domain must be a non-empty string", <<>>)
  ELSE LET noscheme == RemoveAll(RemoveAll(domain, Https), Http)
           noport == IF Contains(noscheme, <<":">>) THEN Before(noscheme, ":")
                     ELSE noscheme
           lowered == Lower(noport)
           nowww == IF StartsWith(lowered, Www)
                    THEN SubSeq(lowered, 5, Len(lowered)) ELSE lowered
           stripped == StripChar(Strip(nowww), "/")
       IN IF ~Contains(stripped, <<".">>) \/ Len(stripped) < MinDomainLen
          THEN ValueError("Invalid domain format: ", stripped)
          ELSE Returned(IF Contains(stripped, <<"/">>) THEN Before(stripped, "/")
                        ELSE stripped)

\* the parts an argument of _normalize_domain is put together from
NormSchemes ==
  { <<>>, Https, Http,
    <<"H","T","T","P","S",":","/","/">>, <<"H","t","t","p",":","/","/">> }
NormWww == { <<>>, Www, <<"W","W","W",".">> }
NormLead == { <<>>, <<" ">> }
NormHosts ==
  { <<>>, <<"a",".","c","o">>, <<"A",".","C","o">>, <<"a",".","b">>, <<"x">> }
NormTails ==
  { <<>>, <<"/">>, <<"/","p">>, <<" ">>, <<":","8","0">>, <<"/","c","d">>,
    <<"/","y",".","z">> }

NormCall(lead, scheme, www, host, tail) ==
  [pc |-> "call", lead |-> lead, scheme |-> scheme, www |-> www, host |-> host,
   tail |-> tail, input |-> lead \o scheme \o www \o host \o tail, out |-> <<>>]

NormIdle == [pc |-> "idle"]

\* self._normalize_domain(domain)
NormalizeDomain ==
  /\ norm.pc = "call"
  /\ norm' = [norm EXCEPT !.pc = "done", !.out = <<_normalize_domain(norm.input)>>]
  /\ UNCHANGED <<sem, stask, client, tool, cop>>
  /\ UNCHANGED <<counterVars, logoVars>>

\* ------------------------------------------------------- BrandfetchClient
\* formats, themes and types asked for
Formats == {"svg", "png"}
Themes == {"light", "dark"}
LogoTypes == {"logo", "icon"}

FormatExt == [svg |-> <<".","s","v","g">>, png |-> <<".","p","n","g">>]

\* the file format a logo URL points at
UrlHasFormat(url, f) == EndsWith(url, FormatExt[f])

\* the "src" of a format variant of a fetched brand record
AssetUrl(type, theme, f) ==
  <<"h","t","t","p",":","/","/","c","d","n","/">>
    \o (IF type = "logo" THEN <<"l">> ELSE <<"i">>)
    \o (IF theme = "light" THEN <<"l">> ELSE <<"d">>) \o FormatExt[f]

\* an entry of "logos" and its "formats"
Logo(type, theme, fmts) ==
  [type |-> type, theme |-> theme,
   formats |-> [i \in DOMAIN fmts |->
                  [format |-> fmts[i], src |-> AssetUrl(type, theme, fmts[i])]]]

\* brand records returned by GET /v2/brands/{domain}
BrandIconFirst ==
  [logos |-> << Logo("icon", "light", <<"svg">>), Logo("logo", "dark", <<"png", "svg">>) >>]
BrandOneLogo == [logos |-> << Logo("logo", "light", <<"png">>) >>]
BrandNoLogos == [logos |-> <<>>]
BrandEmptyFirst ==
  [logos |-> << Logo("logo", "light", <<>>), Logo("icon", "dark", <<"svg">>) >>]

\* the answer to the GET: status (or the exception), body text, parsed JSON
BrandApiReply(status, body, json) == [status |-> status, body |-> body, json |-> json]

GetBrandReplies ==
  { BrandApiReply("200", "", <<BrandIconFirst>>),
    BrandApiReply("200", "", <<BrandOneLogo>>),
    BrandApiReply("200", "", <<BrandNoLogos>>),
    BrandApiReply("200", "", <<BrandEmptyFirst>>),
    BrandApiReply("200", "<html>", <<>>),
    BrandApiReply("404", "{}", <<>>),
    BrandApiReply("401", "{}", <<>>),
    BrandApiReply("429", "{}", <<>>),
    BrandApiReply("500", "oops", <<>>),
    BrandApiReply("timeout", "", <<>>),
    BrandApiReply("error", "", <<>>) }

\* what get_brand returns, or the ValueError it raises: the message, and the
\* status and body the message carries
BrandData(data) == [ok |-> TRUE, data |-> <<data>>, error |-> "", status |-> "", body |-> ""]
BrandError(msg, status, body) ==
  [ok |-> FALSE, data |-> <<>>, error |-> msg, status |-> status, body |-> body]

\* a slip: every error status gets the generic message
GetBrandErrorGeneric(status, body) == BrandError("Brand API error ", status, body)

\* except httpx.HTTPStatusError as e: the message by status
GetBrandError(status, body) ==
  IF status = "404" THEN BrandError("Brand not found for domain: ", "", "")
  ELSE IF status = "401" THEN BrandError("Brand API authentication failed", "", "")
  ELSE IF status = "429" THEN BrandError("Brand API rate limit exceeded", "", "")
  ELSE BrandError("Brand API error ", status, body)

\* the try block of get_brand for an answer of the GET
GetBrandOutcome(reply) ==
  IF reply.status = "timeout" THEN BrandError("Request timeout for domain: ", "", "")
  ELSE IF reply.status = "error"
       THEN BrandError("Unexpected error fetching brand data for ", "", "")
  ELSE IF reply.status = "200"
       THEN IF reply.json = <<>>
            THEN BrandError("Unexpected error fetching brand data for ", "", "")
            ELSE BrandData(reply.json[1])
  ELSE GetBrandError(reply.status, reply.body)

\* what get_brand_logo returns, or the ValueError it raises; asset: format,
\* theme and type of the entry the url was taken from, when it came from one
LogoParams(format, theme, type) == [format |-> format, theme |-> theme, type |-> type]

LogoFound(url, format, theme, type, source, note, asset) ==
  [ok |-> TRUE, url |-> <<url>>, format |-> format, theme |-> theme, type |-> type,
   source |-> source, note |-> note, asset |-> asset,
   prefix |-> "", error |-> "", count |-> <<>>, status |-> "", body |-> ""]

LogoRaise(prefix, error, count, status, body) ==
  [ok |-> FALSE, url |-> <<>>, format |-> "", theme |-> "", type |-> "",
   source |-> "", note |-> <<>>, asset |-> <<>>,
   prefix |-> prefix, error |-> error, count |-> count, status |-> status, body |-> body]

\* results of get_logo_for_domain(domain) seen by its callers
LookupResults ==
  { Success(UrlAcme, "domain-logo", 0, "absent"),
    Success(UrlOther, "brand-search", BRAND_API_MONTH_LIMIT, "warning"),
    Failure("brand_api_limit_reached", <<BRAND_API_MONTH_LIMIT>>, "absent"),
    Failure("brand_api_limit_reached", <<BRAND_API_MONTH_LIMIT + 1>>, "absent"),
    Failure("no_logo_found", <<1>>, "None"),
    Failure("brand_api_network_error", <<0>>, "absent"),
    Raised("RuntimeError") }

\* the ValueError raised inside the try block for an error result, or the
\* exception get_logo_for_domain raised
LookupRaises(result) ==
  IF result.kind = "raise" THEN LogoRaise("", result.error, <<>>, "", "")
  ELSE IF result.error = "brand_api_limit_reached"
       THEN LogoRaise("", "Brand API monthly limit reached (",
                      IF result.count = <<>> THEN <<0>> ELSE result.count, "", "")
  ELSE IF result.error = "no_logo_found"
       THEN LogoRaise("", "No logos found for domain: ", <<>>, "", "")
  ELSE LogoRaise("", "Logo lookup failed: ", <<>>, "", "")

\* (logo, format) positions the exact-match loops accept
ExactMatches(logos, format, theme, type) ==
  { p \in UNION { {<<i, j>> : j \in DOMAIN logos[i].formats} : i \in DOMAIN logos } :
      /\ logos[p[1]].type = type
      /\ logos[p[1]].theme = theme
      /\ logos[p[1]].formats[p[2]].format = format }

\* the first position in loop order
FirstPosition(ps) ==
  CHOOSE p \in ps : \A q \in ps : p[1] < q[1] \/ (p[1] = q[1] /\ p[2] <= q[2])

\* the selection from brand_data["logos"]
SelectLogo(logos, format, theme, type) ==
  LET ps == ExactMatches(logos, format, theme, type) IN
  IF ps # {}
  THEN LET p == FirstPosition(ps)
           fmt == logos[p[1]].formats[p[2]]
       IN LogoFound(fmt.src, format, theme, type, "brand_api_fallback", <<>>,
                    <<LogoParams(fmt.format, logos[p[1]].theme, logos[p[1]].type)>>)
  ELSE IF logos # <<>> /\ logos[1].formats # <<>>
       THEN LET first_format == logos[1].formats[1] IN
            LogoFound(first_format.src, first_format.format, logos[1].theme,
                      logos[1].type, "brand_api_fallback",
                      <<LogoParams(format, theme, type)>>,
                      <<LogoParams(first_format.format, logos[1].theme, logos[1].type)>>)
  ELSE LogoRaise("", "No logos found for domain: ", <<>>, "", "")

\* arguments of get_brand and get_brand_logo
ClientDomains ==
  { DomAcme, Https \o Www \o DomAcme, <<"x">>, <<"x","/","y",".","z">>, <<>> }

ClientIdle(k) ==
  [pc |-> "idle", brand_key |-> k, op |-> "", arg |-> <<>>, domain |-> <<>>,
   format |-> "", theme |-> "", type |-> "", lookup |-> <<>>, caught |-> <<>>,
   nReq |-> 0, reply |-> <<>>, ret |-> <<>>]

\* self.get_brand(domain) up to the awaited GET
EnterGetBrand(c, domain, wrap) ==
  LET n == _normalize_domain(domain)
      fail(msg) == IF wrap THEN LogoRaise("Cannot fetch logo: ", msg, <<>>, "", "")
                   ELSE BrandError(msg, "", "")
  IN
  IF ~c.brand_key
  THEN [c EXCEPT !.pc = "done",
                 !.ret = <<fail("Brand API key required for brand data operations")>>]
  ELSE IF ~n.ok THEN [c EXCEPT !.pc = "done", !.ret = <<fail(n.error)>>]
  ELSE [c EXCEPT !.pc = "brand_get", !.domain = n.value, !.nReq = @ + 1]

\* get_brand(domain)
GetBrand(domain) ==
  /\ client.pc = "idle"
  /\ client' = EnterGetBrand([client EXCEPT !.op = "get_brand", !.arg = domain],
                             domain, FALSE)
  /\ UNCHANGED <<sem, stask, norm, tool, cop>>
  /\ UNCHANGED <<counterVars, logoVars>>

\* get_brand_logo(domain, format, theme, logo_type) up to the awaited lookup
GetBrandLogo(domain, format, theme, type) ==
  LET n == _normalize_domain(domain)
      c == [client EXCEPT !.op = "get_brand_logo", !.arg = domain,
                          !.format = format, !.theme = theme, !.type = type]
  IN
  /\ client.pc = "idle"
  /\ client' =
       IF ~n.ok
       THEN [c EXCEPT !.pc = "done", !.ret = <<LogoRaise("", n.error, <<>>, "", "")>>]
       ELSE [c EXCEPT !.pc = "lookup", !.domain = n.value]
  /\ UNCHANGED <<sem, stask, norm, tool, cop>>
  /\ UNCHANGED <<counterVars, logoVars>>

\* result = await get_logo_for_domain(domain): the return on "logo_url", else
\* the except clause and the call of self.get_brand(domain)
LookupReturned(result) ==
  /\ client.pc = "lookup"
  /\ client' =
       IF result.kind = "ok"
       THEN [client EXCEPT
               !.pc = "done", !.lookup = <<result>>,
               !.ret = <<[LogoFound(result.logo_url[1], client.format, client.theme,
                                    client.type, result.source, <<>>, <<>>)
                            EXCEPT !.count = result.count]>>]
       ELSE EnterGetBrand([client EXCEPT !.lookup = <<result>>,
                                         !.caught = <<LookupRaises(result)>>],
                          client.domain, TRUE)
  /\ UNCHANGED <<sem, stask, norm, tool, cop>>
  /\ UNCHANGED <<counterVars, logoVars>>

\* the GET of get_brand answers: get_brand returns or raises, and
\* get_brand_logo selects from the record or re-raises
GetBrandReplied(reply) ==
  LET o == GetBrandOutcome(reply) IN
  /\ client.pc = "brand_get"
  /\ client' =
       [client EXCEPT
          !.pc = "done", !.reply = <<reply>>,
          !.ret = IF client.op = "get_brand" THEN <<o>>
                  ELSE IF ~o.ok
                       THEN <<LogoRaise("Cannot fetch logo: ", o.error, <<>>,
                                        o.status, o.body)>>
                  ELSE <<SelectLogo(o.data[1].logos, client.format, client.theme,
                                    client.type)>>]
  /\ UNCHANGED <<sem, stask, norm, tool, cop>>
  /\ UNCHANGED <<counterVars, logoVars>>

NormQuiet == norm = NormIdle

ClientQuiet == client = ClientIdle(TRUE)

\* ------------------------------------------------------------- call_tool
\* the cross mark (U+274C) the failure texts start with
FailureMarker == "U+274C"

ToolNames ==
  { "get_brand_details", "search_brands", "get_brand_logo", "get_brand_colors",
    "get_logo_url", "no_such_tool" }

\* the arguments object: whether it is a dict, and each key absent, empty or set
Args(isdict, domain, query, name) ==
  [isdict |-> isdict, domain |-> domain, query |-> query, name |-> name]

ToolArgs ==
  { Args(FALSE, "absent", "absent", "absent"),
    Args(TRUE, "absent", "absent", "absent"),
    Args(TRUE, "set", "absent", "absent"),
    Args(TRUE, "absent", "set", "absent"),
    Args(TRUE, "absent", "absent", "set"),
    Args(TRUE, "empty", "absent", "set"),
    Args(TRUE, "empty", "absent", "absent") }

\* what the awaited client method does: returns, or raises
ClientOutcomes == { "returns", "ValueError", "HTTPStatusError", "TimeoutException" }

\* what get_logo_for_domain gives the get_logo_url tool
ToolLookupResults ==
  LookupResults \cup { Failure("invalid_domain", <<>>, "absent") }

\* the try block ends with a return of one TextContent, or with an exception
TextContent(text) == [type |-> "text", text |-> text]
ToolReturn(text) == [raised |-> FALSE, exc |-> "", items |-> <<TextContent(text)>>]
ToolRaise(exc) == [raised |-> TRUE, exc |-> exc, items |-> <<>>]

\* the key each client tool reads with arguments[...]
RequiredKey == [get_brand_details |-> "domain", search_brands |-> "query",
                get_brand_logo |-> "domain", get_brand_colors |-> "domain"]

\* the get_logo_url branch: the inner try and its except clause
LogoUrlTool(args, result) ==
  IF ~args.isdict THEN ToolRaise("AttributeError")
  ELSE IF args.domain # "set" /\ args.name # "set"
       THEN ToolReturn(<<FailureMarker, " **Error:** ",
                         "Either domain or name must be provided">>)
  ELSE IF result.kind = "raise"
       THEN ToolReturn(<<FailureMarker, " **Error:** ", result.error>>)
  ELSE IF result.kind = "ok"
       THEN ToolReturn(<<"**Logo URL:** ", result.source,
                         "**Brand API calls this month:** ",
                         ToString(result.count[1])>>)
  ELSE IF result.error = "brand_api_limit_reached"
       THEN ToolReturn(<<FailureMarker, " **Brand API limit reached** (",
                         ToString(IF result.count = <<>> THEN 0 ELSE result.count[1]),
                         " calls). Try again next month.">>)
  ELSE IF result.error = "no_logo_found"
       THEN ToolReturn(<<FailureMarker, " **No logo found**">>)
  ELSE ToolReturn(<<FailureMarker, " **Error:** ", "Unknown error">>)

\* the try block of call_tool
ToolTry(name, args, outcome, result) ==
  IF name = "get_logo_url" THEN LogoUrlTool(args, result)
  ELSE IF name \notin DOMAIN RequiredKey THEN ToolRaise("ValueError")
  ELSE IF ~args.isdict THEN ToolRaise("TypeError")
  ELSE IF args[RequiredKey[name]] = "absent" THEN ToolRaise("KeyError")
  ELSE IF outcome = "returns" THEN ToolReturn(<<"formatted">>)
  ELSE ToolRaise(outcome)

\* a slip: no clause for the exceptions that are neither ValueError nor
\* HTTPStatusError
ExceptClausesNoCatchAll(name, t) ==
  IF ~t.raised THEN t
  ELSE IF t.exc = "ValueError" THEN ToolReturn(<<FailureMarker, " Error: ", t.exc>>)
  ELSE IF t.exc = "HTTPStatusError"
       THEN ToolReturn(<<FailureMarker, " API Error: ", "API error (">>)
  ELSE t

\* except ValueError / except httpx.HTTPStatusError / except Exception
ExceptClauses(name, t) ==
  IF ~t.raised THEN t
  ELSE IF t.exc = "ValueError" THEN ToolReturn(<<FailureMarker, " Error: ", t.exc>>)
  ELSE IF t.exc = "HTTPStatusError"
       THEN ToolReturn(<<FailureMarker, " API Error: ", "API error (">>)
  ELSE ToolReturn(<<FailureMarker, " Error: ", "Unexpected error executing ", name,
                    ": ", t.exc>>)

ToolIdle ==
  [pc |-> "idle", name |-> "", args |-> Args(TRUE, "absent", "absent", "absent"),
   outcome |-> "", result |-> <<>>, ret |-> <<>>]

\* call_tool(name, arguments)
CallTool(name, args, outcome, result) ==
  /\ tool.pc = "idle"
  /\ tool' = [pc |-> "done", name |-> name, args |-> args, outcome |-> outcome,
              result |-> <<result>>,
              ret |-> <<ExceptClauses(name, ToolTry(name, args, outcome, result))>>]
  /\ UNCHANGED <<sem, stask, norm, client, cop>>
  /\ UNCHANGED <<counterVars, logoVars>>

ToolQuiet == tool = ToolIdle

\* ------------------------------------- LogoLookupCache.get / set, called directly
MaxCacheOps == 3

CacheKeys == { DomainKeyPrefix \o DomOther, NameKeyPrefix \o NameCo }
CacheValues == { Entry(<<>>, SourceNone), Entry(<<CdnUrl(DomOther)>>, SourceCdn) }

\* last: per key, the value of the latest set (history)
CopIdle ==
  [n |-> 0, op |-> "", key |-> <<>>, value |-> <<>>, redisOk |-> TRUE, ret |-> <<>>,
   last |-> <<>>]

\* await cache.get(key); redisOk: the Redis call did not raise
CacheGetCall(key, redisOk) ==
  /\ cop.n < MaxCacheOps
  /\ lenv.redis \/ redisOk
  /\ cop' = [n |-> cop.n + 1, op |-> "get", key |-> key, value |-> <<>>,
             redisOk |-> redisOk, ret |-> CacheLookup(key, redisOk), last |-> cop.last]
  /\ UNCHANGED <<sem, stask, norm, client, tool>>
  /\ UNCHANGED <<counterVars, logoVars>>

\* await cache.set(key, value)
CacheSetCall(key, value, redisOk) ==
  /\ cop.n < MaxCacheOps
  /\ lenv.redis \/ redisOk
  /\ cache_redis' =
       IF lenv.redis /\ redisOk
       THEN Put(cache_redis, RedisPrefix \o key, Repr(value))
       ELSE cache_redis
  /\ cache_mem' = Put(cache_mem, key, value)
  /\ cop' = [n |-> cop.n + 1, op |-> "set", key |-> key, value |-> <<value>>,
             redisOk |-> redisOk, ret |-> <<>>, last |-> Put(cop.last, key, value)]
  /\ UNCHANGED <<sem, stask, norm, client, tool>>
  /\ UNCHANGED <<counterVars, live, lenv, task, lcalls>>

CopQuiet == cop = CopIdle

\* no call of the other components
AppQuiet ==
  /\ SemQuiet
  /\ NormQuiet
  /\ ClientQuiet
  /\ ToolQuiet
  /\ CopQuiet

\* ------------------------------------------------------------ specifications
InitCounter ==
  /\ row \in {<<>>} \cup {<<n>> : n \in 0..MaxInitCount}
  /\ proc = [p \in Procs |-> Idle]
  /\ calls = 0
  /\ hist = [init |-> CountOf(row), sum |-> 0, responded |-> 0]

\* get_logo_for_domain, one invocation at a time
Init ==
  /\ InitCounter
  /\ LogoQuiet
  /\ AppQuiet
  /\ env \in [LOGO_API_KEY : BOOLEAN, BRAND_API_KEY : BOOLEAN]

Next ==
  \/ \E d \in DomainInputs, h \in HintInputs : Start(1, d, h)
  \/ \E r \in LogoReplies : CallLogoApi(1, r)
  \/ GetBrandCount(1)
  \/ \E r \in BrandReplies : CallBrandApiSearch(1, r)
  \/ IncSelect(1)
  \/ IncWrite(1)
  \/ PickBest(1)
  \/ Finish(1)

Spec == Init /\ [][Next]_vars

\* increment_brand_counter called by several processes on one database file
InitInc ==
  /\ InitCounter
  /\ LogoQuiet
  /\ AppQuiet
  /\ env = [LOGO_API_KEY |-> TRUE, BRAND_API_KEY |-> TRUE]

NextInc ==
  \/ \E p \in Procs, d \in 1..MaxDelta : IncCall(p, d)
  \/ \E p \in Procs : IncSelect(p)
  \/ \E p \in Procs : IncWrite(p)
  \/ \E p \in Procs : Finish(p)

SpecInc == InitInc /\ [][NextInc]_vars

\* ------------------------------------------------ claims: the usage counter
Quiescent == \A p \in Procs : proc[p].pc \in {"idle", "done"}

\* C1: when every process has completed its increment_brand_counter(d_i),
\* the stored count equals the initial count plus the sum of the d_i of the
\* calls that completed (no update is lost).
C1_NoLostUpdate ==
  Quiescent => CountOf(row) = hist.init + hist.sum

\* --------------------------------------- claims: get_logo_for_domain (Spec)
HasCandidateFor(domain, resp) ==
  \E i \in DOMAIN resp.candidates : Contains(Lower(resp.candidates[i]), domain)

\* C2: once the logo-by-domain step has answered without a candidate being
\* accepted and the stored count is at or above BRAND_API_MONTH_LIMIT, the
\* invocation never calls the brand search, leaves the counter as it was and
\* ends with the error brand_api_limit_reached carrying the stored count.
C2_LimitReachedNoSearch ==
  \A p \in Procs :
    LET me == proc[p] IN
    ( /\ me.op = "logo"
      /\ me.dresp # <<>>
      /\ ~DomainLogoAccepted(me.domain, me.dresp[1])
      /\ CountOf(me.row0) >= BRAND_API_MONTH_LIMIT )
    => /\ me.pc \in {"count", "done"}
       /\ me.nSearch = 0
       /\ me.nWrites = 0
       /\ row = me.row0
       /\ me.pc = "done" =>
            me.result = <<Failure("brand_api_limit_reached", <<CountOf(row)>>, "absent")>>

C2_Witness ==
  \E p \in Procs :
    /\ proc[p].pc = "done"
    /\ proc[p].dresp # <<>>
    /\ proc[p].dresp[1].status_code = "200"
    /\ proc[p].dresp[1].candidates # <<>>
    /\ proc[p].result[1].error = "brand_api_limit_reached"
    /\ proc[p].result[1].count = <<BRAND_API_MONTH_LIMIT>>

\* C3: when the brand search ends without an HTTP response (status_code is
\* None) the invocation returns brand_api_network_error, increment_brand_counter
\* is not entered and the stored counter is what it was before the invocation.
C3_NetworkErrorNoIncrement ==
  \A p \in Procs :
    LET me == proc[p] IN
    (me.op = "logo" /\ me.bresp # <<>> /\ me.bresp[1].status_code = "None")
    => /\ me.pc = "done"
       /\ me.result[1].kind = "error"
       /\ me.result[1].error = "brand_api_network_error"
       /\ me.nWrites = 0
       /\ row = me.row0

C3_Witness ==
  \E p \in Procs :
    /\ proc[p].pc = "done"
    /\ proc[p].nSearch = 1
    /\ proc[p].bresp # <<>>
    /\ proc[p].bresp[1].status_code = "None"
    /\ proc[p].result[1].error = "brand_api_network_error"
    /\ hist.responded > 0
    /\ row # <<>>

\* C4: with invocations run one at a time, between invocations the stored
\* counter is the initial count plus the number of brand searches that got an
\* HTTP response; an invocation adds 1 exactly when its search got a response,
\* with or without a candidate, and 0 otherwise; the counter never decreases;
\* a brand-search or no_logo_found result carries the count after the increment.
C4_Between ==
  \A p \in Procs :
    LET me == proc[p]
        answered == me.bresp # <<>> /\ me.bresp[1].status_code # "None"
    IN
    /\ CountOf(row) >= CountOf(me.row0)
    /\ Quiescent => CountOf(row) = hist.init + hist.responded
    /\ (me.op = "logo" /\ me.pc = "done") =>
         /\ CountOf(row) = CountOf(me.row0) + (IF answered THEN 1 ELSE 0)
         /\ answered =>
              /\ me.result[1].count = <<CountOf(me.row0) + 1>>
              /\ \/ me.result[1].source = "brand-search"
                 \/ me.result[1].error = "no_logo_found"
         /\ (me.result[1].source = "brand-search" \/ me.result[1].error = "no_logo_found")
              => answered

C4_NeverDecreases == [][CountOf(row') >= CountOf(row)]_vars

\* C4: the counter counts the answered brand searches (C4_Between in every
\* state) and no step lowers it.
C4_CounterCountsAnswered == []C4_Between /\ C4_NeverDecreases

C4_Witness ==
  \E p \in Procs :
    /\ proc[p].pc = "done"
    /\ proc[p].result[1].error = "no_logo_found"
    /\ proc[p].bresp[1].status_code = "401"
    /\ hist.responded = 2
    /\ calls = 3
    /\ CountOf(row) = hist.init + 2

\* C5: when the logo-by-domain call answers 200 with a candidate that contains
\* the target domain, the invocation returns that answer's first candidate with
\* source domain-logo, makes no brand search and leaves the counter unchanged.
C5_DomainLogoNoQuota ==
  \A p \in Procs :
    LET me == proc[p] IN
    ( /\ me.op = "logo"
      /\ me.dresp # <<>>
      /\ me.dresp[1].status_code = "200"
      /\ HasCandidateFor(me.domain, me.dresp[1]) )
    => /\ me.pc \in {"count", "done"}
       /\ me.nSearch = 0
       /\ me.nWrites = 0
       /\ row = me.row0
       /\ me.pc = "done" =>
            /\ me.result[1].kind = "ok"
            /\ me.result[1].source = "domain-logo"
            /\ me.result[1].logo_url = <<me.dresp[1].candidates[1]>>
            /\ me.result[1].count = <<CountOf(row)>>

C5_Witness ==
  \E p \in Procs :
    /\ proc[p].pc = "done"
    /\ proc[p].result[1].source = "domain-logo"
    /\ proc[p].dresp[1].candidates = <<UrlAcmeUpper>>
    /\ CountOf(row) >= BRAND_API_MONTH_LIMIT

\* ------------------------------------------- specification: get_logo_url
InitLogo ==
  /\ live \in SUBSET ProbeDomains
  /\ lenv \in [redis : BOOLEAN, api_key : BOOLEAN]
  /\ cache_mem = <<>>
  /\ cache_redis = <<>>
  /\ task = LIdle
  /\ lcalls = 0
  /\ row = <<>>
  /\ env = [LOGO_API_KEY |-> TRUE, BRAND_API_KEY |-> TRUE]
  /\ proc = [p \in Procs |-> Idle]
  /\ calls = 0
  /\ hist = [init |-> 0, sum |-> 0, responded |-> 0]
  /\ AppQuiet

NextLogo ==
  \/ \E d \in LogoDomainInputs, n \in LogoNameInputs : GetLogoUrl(d, n)
  \/ \E ok \in BOOLEAN : CacheGet(ok)
  \/ \E h \in HeadOutcomes, g \in GetOutcomes : ProbeDomain(h, g)
  \/ \E h \in HeadOutcomes, g \in GetOutcomes : ProbeCandidate(h, g)
  \/ \E r \in SearchReplies : SearchApi(r)
  \/ \E h \in HeadOutcomes, g \in GetOutcomes : Reprobe(h, g)
  \/ \E ok \in BOOLEAN : CacheSet(ok)
  \/ LogoFinish
  \/ \E k \in DOMAIN cache_mem : ExpireMemory(k)
  \/ \E k \in DOMAIN cache_redis : ExpireRedis(k)

SpecLogo == InitLogo /\ [][NextLogo]_vars

\* ------------------------------------------ claims: get_logo_url (SpecLogo)
NameOnly == ~Truthy(task.domain) /\ Truthy(task.name)

HeuristicProbes == SelectSeq(task.probes, LAMBDA x : x.phase = "heuristic")

\* C6: when cache.get finds an entry for the key, get_logo_url returns exactly
\* the cached (url, source), makes no CDN probe and no search call and does
\* not write the cache.
C6_State ==
  task.hit =>
    /\ task.pc = "done"
    /\ task.ret = <<Entry(task.cached[1].url, task.cached[1].source)>>
    /\ task.probes = <<>>
    /\ task.nSearch = 0
    /\ task.nSet = 0

C6_Step ==
  [][ (task.pc = "cache_get" /\ task'.pc # "cache_get" /\ task'.hit) =>
        /\ cache_mem' = cache_mem
        /\ cache_redis' = cache_redis
        /\ \/ /\ task.key \in DOMAIN cache_mem
              /\ task'.ret = <<cache_mem[task.key]>>
           \/ /\ lenv.redis
              /\ (RedisPrefix \o task.key) \in DOMAIN cache_redis
              /\ task'.ret = <<Eval(cache_redis[RedisPrefix \o task.key])>> ]_vars

\* C6: a cache hit returns the stored entry (C6_Step) and is followed by no
\* probe, search or cache write (C6_State).
C6_CacheHitReturnsCached == []C6_State /\ C6_Step

C6_Witness ==
  /\ task.pc = "done"
  /\ task.hit
  /\ task.ret = <<Entry(<<>>, SourceNone)>>
  /\ task.key = NameKeyPrefix \o NameAcmeInc

\* the case C7 is about: a domain whose probe failed, given with a name whose
\* first heuristic candidate the CDN serves
C7_Case ==
  /\ task.pc = "done"
  /\ ~task.hit
  /\ Truthy(task.domain)
  /\ task.domain[1] \notin live
  /\ Truthy(task.name)
  /\ FirstCandidates(task.name[1]) # <<>>
  /\ FirstCandidates(task.name[1])[1] \in live

\* C7 as stated: a domain whose CDN probe fails, given with a name whose first
\* heuristic candidate's probe succeeds, gives source heuristic_guess and no
\* search-API call.
C7_DomainFailsNameHeuristic ==
  C7_Case => task.ret[1].source = SourceHeuristic /\ task.nSearch = 0

\* C7 amended: in that case the name is not used: the one probe is the
\* domain's, the result is (None, "none"), and no search-API call occurs.
C7_DomainFailsNameIgnored ==
  C7_Case =>
    /\ task.ret = <<Entry(<<>>, SourceNone)>>
    /\ task.nSearch = 0
    /\ task.probes = <<Probed(task.domain[1], <<>>, "domain")>>

C7_Witness ==
  /\ C7_Case
  /\ task.domain = <<DomOther>>
  /\ task.name = <<NameAcmeInc>>
  /\ DomAcme \in live

\* C8: for a name-only call the search API is called at most once, only after
\* every heuristic candidate has been probed and has failed, never when one
\* succeeded; a found domain whose probe succeeds gives (its CDN url,
\* brand_search), and with no heuristic success anything else gives (None, none).
C8_SearchAfterHeuristics ==
  (NameOnly /\ ~task.hit) =>
    LET hp == HeuristicProbes
        won == \E i \in DOMAIN hp : hp[i].ok
    IN
    /\ task.nSearch <= 1
    /\ (task.nSearch = 1 \/ task.pc \in {"search", "reprobe"}) =>
         /\ ~won
         /\ Len(hp) = Len(FirstCandidates(task.name[1]))
    /\ won => task.nSearch = 0 /\ task.found = <<>>
    /\ (task.pc = "done" /\ ~won) =>
         IF task.nSearch = 1 /\ Truthy(task.found) /\ task.found[1] \in live
         THEN task.ret = <<Entry(<<CdnUrl(task.found[1])>>, SourceSearch)>>
         ELSE task.ret = <<Entry(<<>>, SourceNone)>>

C8_Witness ==
  /\ NameOnly
  /\ task.pc = "done"
  /\ task.ret[1].source = SourceSearch
  /\ Len(task.probes) = 6
  /\ task.nSearch = 1

\* C9: for a name-only call the heuristic probes are, in order, name.com,
\* www.name.com, name.co, www.name.co, name.io (name normalised); at most 5 are
\* made; every probe but the last failed; a success ends the probing and gives
\* (its CDN url, heuristic_guess).
C9_Expected(n) ==
  << n \o <<".","c","o","m">>, Www \o n \o <<".","c","o","m">>,
     n \o <<".","c","o">>, Www \o n \o <<".","c","o">>,
     n \o <<".","i","o">> >>

C9_HeuristicOrder ==
  (NameOnly /\ ~task.hit) =>
    LET hp == HeuristicProbes
        expected == C9_Expected(_normalize_name_for_domain(task.name[1]))
    IN
    /\ Len(hp) <= 5
    /\ \A i \in DOMAIN hp :
         /\ hp[i].domain = expected[i]
         /\ task.probes[i] = hp[i]
         /\ i < Len(hp) => ~hp[i].ok
    /\ (task.name = <<NameAcmeInc>> /\ Len(hp) >= 2) =>
         hp[1].domain = DomAcme /\ hp[2].domain = WwwAcme
    /\ (hp # <<>> /\ hp[Len(hp)].ok) =>
         /\ task.pc \in {"cache_set", "done"}
         /\ task.probes = hp
         /\ task.source = SourceHeuristic
         /\ task.pc = "done" =>
              task.ret = <<Entry(<<CdnUrl(expected[Len(hp)])>>, SourceHeuristic)>>

C9_Witness ==
  /\ NameOnly
  /\ task.pc = "done"
  /\ task.ret = <<Entry(<<CdnUrl(WwwAcme)>>, SourceHeuristic)>>
  /\ Len(task.probes) = 2

\* C10: a get_logo_url call with an input that misses the cache calls
\* cache.set exactly once, at its end, under "domain:<domain>" when a domain was
\* given and "name:<name>" otherwise, with the (url, source) it returns, the
\* (None, "none") outcome included; right after it a cache.get of that key
\* finds an entry, so the same call again is a hit.
C10_State ==
  (~task.hit /\ task.pc # "idle" /\ (Truthy(task.domain) \/ Truthy(task.name))) =>
    IF task.pc = "done"
    THEN /\ task.nSet = 1
         /\ task.setKey = IF Truthy(task.domain) THEN DomainKeyPrefix \o task.domain[1]
                          ELSE NameKeyPrefix \o task.name[1]
         /\ task.setVal = task.ret
    ELSE task.nSet = 0

C10_Step ==
  [][ (task.pc = "cache_set" /\ task'.pc = "done") =>
        /\ task.key \in DOMAIN cache_mem'
        /\ cache_mem'[task.key] = task'.ret[1]
        /\ \A k \in DOMAIN cache_mem : k # task.key => cache_mem'[k] = cache_mem[k]
        /\ DOMAIN cache_mem' = DOMAIN cache_mem \cup {task.key}
        /\ \A ok \in BOOLEAN :
             CacheLookupIn(cache_mem', cache_redis', task.key, ok) # <<>> ]_vars

\* C10: one cache.set per missing call, with its key and outcome (C10_State),
\* after which the key is found (C10_Step).
C10_OutcomeCached == []C10_State /\ C10_Step

C10_Witness ==
  /\ task.pc = "done"
  /\ ~task.hit
  /\ task.nSet = 1
  /\ task.ret = <<Entry(<<>>, SourceNone)>>
  /\ task.key \in DOMAIN cache_mem
  /\ lenv.redis
  /\ (RedisPrefix \o task.key) \notin DOMAIN cache_redis
  /\ lcalls = 2

\* the guard of the step a running call is at holds: the call can go on
C11_CanGoOn ==
  /\ task.pc = "probe_domain" =>
       (Truthy(task.domain) /\ ProbeOutcomes(task.domain[1]) # {})
  /\ task.pc = "heur" =>
       /\ task.idx \in DOMAIN FirstCandidates(task.name[1])
       /\ ProbeOutcomes(FirstCandidates(task.name[1])[task.idx]) # {}
  /\ task.pc = "reprobe" =>
       (Truthy(task.found) /\ ProbeOutcomes(task.found[1]) # {})
  /\ task.pc \in {"idle", "cache_get", "probe_domain", "heur", "search",
                  "reprobe", "cache_set", "done"}

C11_State ==
  /\ task.lastProbe \in {"raised", "http_error"} => task.result_url = <<>>
  /\ task.searchStatus \notin {"", "200"} => task.found = <<>>
  /\ C11_CanGoOn
  /\ task.pc = "done" =>
       /\ task.ret # <<>>
       /\ task.ret[1].source \in {SourceNone, SourceCdn, SourceHeuristic, SourceSearch}
       /\ (task.ret[1].url = <<>>) <=> (task.ret[1].source = SourceNone)
       /\ (~task.hit /\ task.searchStatus \notin {"", "200"}) =>
            task.ret = <<Entry(<<>>, SourceNone)>>

C11_Step ==
  [][ /\ ( /\ Len(task'.probes) = Len(task.probes) + 1
           /\ task'.lastProbe \in {"raised", "http_error"} ) =>
             task'.pc = IF task.pc = "heur"
                        THEN IF task.idx < Len(FirstCandidates(task.name[1]))
                             THEN "heur" ELSE "search"
                        ELSE "cache_set"
      /\ (task.pc = "search" /\ task'.searchStatus \notin {"", "200"}) =>
           task'.pc = "cache_set" ]_vars

\* C11: get_logo_url propagates no network, timeout or HTTP error: a CDN probe
\* whose request raised or answered an error status leaves no url, a search
\* that raised or answered an error status (401 included) gives no domain,
\* every running call has a next step and ends with a (url-or-None, source)
\* pair (C11_State); after a failed probe the chain goes on to the next
\* candidate, the search or the end (C11_Step).
C11_FailuresAreNegative == []C11_State /\ C11_Step

C11_Witness ==
  /\ task.pc = "done"
  /\ NameOnly
  /\ task.lastProbe = "raised"
  /\ Len(task.probes) = HeuristicLimit
  /\ task.searchStatus = "401"
  /\ task.ret = <<Entry(<<>>, SourceNone)>>

\* ------------------------------ specification: the search-API semaphore
CounterQuiet ==
  /\ row = <<>>
  /\ env = [LOGO_API_KEY |-> TRUE, BRAND_API_KEY |-> TRUE]
  /\ proc = [p \in Procs |-> Idle]
  /\ calls = 0
  /\ hist = [init |-> 0, sum |-> 0, responded |-> 0]

\* concurrent get_logo_url tasks of one BrandLogoLookup reaching the search
InitSem ==
  /\ CounterQuiet
  /\ live = {}
  /\ lenv \in [redis : {FALSE}, api_key : BOOLEAN]
  /\ cache_mem = <<>>
  /\ cache_redis = <<>>
  /\ task = LIdle
  /\ lcalls = 0
  /\ AppQuiet

NextSem ==
  \/ \E t \in Tasks : SearchEnter(t)
  \/ \E t \in Tasks : SemAcquire(t)
  \/ \E t \in Tasks, r \in SemReplies : SearchReplied(t, r)
  \/ \E t \in Tasks : SearchLeave(t)

SpecSem == InitSem /\ [][NextSem]_vars

\* tasks whose search request is in flight
InFlight == {t \in Tasks : stask[t].pc = "request"}

C12_State == Cardinality(InFlight) <= SemaphoreSlots

C12_Step ==
  [][ \A t \in Tasks :
        (stask[t].pc = "acquire" /\ Cardinality(InFlight) = SemaphoreSlots) =>
          stask'[t].pc = "acquire" ]_vars

\* C12: in every interleaving at most 5 search requests of one BrandLogoLookup
\* are in flight (C12_State), and a caller arriving while 5 are in flight stays
\* waiting in that step: it goes on only after a reply freed a slot (C12_Step).
C12_AtMostFiveInFlight == []C12_State /\ C12_Step

C12_Witness ==
  /\ Cardinality(InFlight) = SemaphoreSlots
  /\ \E t \in Tasks : stask[t].pc = "acquire"

\* ---------------------------------------- specification: _normalize_domain
InitNorm ==
  /\ CounterQuiet
  /\ LogoQuiet
  /\ SemQuiet
  /\ ClientQuiet
  /\ ToolQuiet
  /\ CopQuiet
  /\ norm \in { NormCall(l, s, w, h, t) :
                  l \in NormLead, s \in NormSchemes, w \in NormWww,
                  h \in NormHosts, t \in NormTails }

NextNorm == NormalizeDomain

SpecNorm == InitNorm /\ [][NextNorm]_vars

\* the argument is a bare domain with a scheme, a www. prefix, whitespace, a
\* path or a trailing slash added
C13_Decorated ==
  /\ norm.host \in {<<"a",".","c","o">>, <<"A",".","C","o">>}
  /\ norm.tail \in {<<>>, <<"/">>, <<"/","p">>, <<" ">>}

\* C13: for a bare domain with a scheme in any letter case, a www. prefix in
\* any case, surrounding whitespace, a path or a trailing slash added,
\* _normalize_domain returns the lowercase bare domain.
C13_SameBareDomain ==
  (norm.pc = "done" /\ C13_Decorated) => norm.out = <<Returned(Lower(norm.host))>>

\* C14: every value _normalize_domain returns contains a '.', has at least 4
\* characters and has no scheme, port, path or www. prefix.
C14_ReturnedIsBareDomain ==
  (norm.pc = "done" /\ norm.out[1].ok) =>
    LET v == norm.out[1].value IN
    /\ Contains(v, <<".">>)
    /\ Len(v) >= MinDomainLen
    /\ ~Contains(v, <<"/">>)
    /\ ~Contains(v, <<":">>)
    /\ ~StartsWith(v, Www)

\* ------------------------------------------ specification: BrandfetchClient
\* one call of get_brand or get_brand_logo on a client with or without a
\* brand key
InitClient ==
  /\ CounterQuiet
  /\ LogoQuiet
  /\ SemQuiet
  /\ NormQuiet
  /\ ToolQuiet
  /\ CopQuiet
  /\ client \in {ClientIdle(k) : k \in BOOLEAN}

NextClient ==
  \/ \E d \in ClientDomains : GetBrand(d)
  \/ \E d \in ClientDomains, f \in Formats, th \in Themes, ty \in LogoTypes :
       GetBrandLogo(d, f, th, ty)
  \/ \E r \in LookupResults : LookupReturned(r)
  \/ \E r \in GetBrandReplies : GetBrandReplied(r)

SpecClient == InitClient /\ [][NextClient]_vars

\* C15: a get_brand call whose argument passes the key and domain tests sends
\* exactly one request (no call sends more than one, whatever the answer), and
\* the answer is mapped: 404 to not-found, 401 to the authentication error,
\* 429 to the rate-limit error, another error status to the generic error with
\* status and body, a timeout to the timeout error.
C15_OneRequestMapped ==
  client.op = "get_brand" =>
    /\ client.nReq <= 1
    /\ client.pc = "brand_get" => client.nReq = 1
    /\ (client.pc = "done" /\ client.reply = <<>>) => (client.nReq = 0 /\ ~client.ret[1].ok)
    /\ (client.pc = "done" /\ client.reply # <<>>) =>
         LET st == client.reply[1].status
             r == client.ret[1]
         IN
         /\ client.nReq = 1
         /\ st = "404" => (~r.ok /\ r.error = "Brand not found for domain: ")
         /\ st = "401" => (~r.ok /\ r.error = "Brand API authentication failed")
         /\ st = "429" => (~r.ok /\ r.error = "Brand API rate limit exceeded")
         /\ st = "500" =>
              /\ ~r.ok
              /\ r.error = "Brand API error "
              /\ r.status = st
              /\ r.body = client.reply[1].body
         /\ st = "timeout" => (~r.ok /\ r.error = "Request timeout for domain: ")

C15_Witness ==
  /\ client.op = "get_brand"
  /\ client.pc = "done"
  /\ client.nReq = 1
  /\ client.reply # <<>>
  /\ client.reply[1].status = "429"
  /\ client.ret[1].error = "Brand API rate limit exceeded"

\* C17: when get_logo_for_domain reports brand_api_limit_reached,
\* get_brand_logo raises the quota error, which carries the current count and
\* is not the vendor rate-limit error.
C17_QuotaErrorSurfaced ==
  ( /\ client.op = "get_brand_logo"
    /\ client.pc = "done"
    /\ client.lookup # <<>>
    /\ client.lookup[1].error = "brand_api_limit_reached" ) =>
      /\ ~client.ret[1].ok
      /\ client.ret[1].error = "Brand API monthly limit reached ("
      /\ client.ret[1].count = client.lookup[1].count

\* the fetched record has no logo of the type and theme asked for, and has a
\* logo of the type asked for
C18_TypeOnly ==
  /\ client.op = "get_brand_logo"
  /\ client.pc = "done"
  /\ client.reply # <<>>
  /\ client.reply[1].status = "200"
  /\ client.reply[1].json # <<>>
  /\ LET logos == client.reply[1].json[1].logos IN
     /\ \A i \in DOMAIN logos :
          ~(logos[i].type = client.type /\ logos[i].theme = client.theme)
     /\ \E i \in DOMAIN logos : logos[i].type = client.type

\* C18: when no logo matches type and theme but some logo has the type asked
\* for, the logo returned has that type, and the format asked for when a logo
\* of that type offers it.
C18_TypeBeforeAnyLogo ==
  C18_TypeOnly =>
    LET logos == client.reply[1].json[1].logos
        r == client.ret[1]
    IN
    /\ r.ok
    /\ r.type = client.type
    /\ (\A i \in DOMAIN logos :
          logos[i].type = client.type =>
            \E j \in DOMAIN logos[i].formats : logos[i].formats[j].format = client.format)
         => r.format = client.format

\* the fetched record has no logo with the format, theme and type asked for
C19_Absent ==
  /\ client.op = "get_brand_logo"
  /\ client.pc = "done"
  /\ client.reply # <<>>
  /\ client.reply[1].status = "200"
  /\ client.reply[1].json # <<>>
  /\ client.reply[1].json[1].logos # <<>>
  /\ ExactMatches(client.reply[1].json[1].logos,
                  client.format, client.theme, client.type) = {}

\* C19: asked for a combination the brand does not have, get_brand_logo
\* returns the first logo and format with a note naming what was asked for;
\* and a result labelled with the format, theme and type asked for is an
\* asset of that format, theme and type.
C19_FallbackIsReported ==
  /\ C19_Absent =>
       LET logos == client.reply[1].json[1].logos
           r == client.ret[1]
       IN
       /\ r.ok
       /\ r.asset = <<LogoParams(logos[1].formats[1].format, logos[1].theme, logos[1].type)>>
       /\ r.note = <<LogoParams(client.format, client.theme, client.type)>>
  /\ ( /\ client.op = "get_brand_logo"
       /\ client.pc = "done"
       /\ client.ret[1].ok
       /\ client.ret[1].format = client.format
       /\ client.ret[1].theme = client.theme
       /\ client.ret[1].type = client.type ) =>
         /\ UrlHasFormat(client.ret[1].url[1], client.format)
         /\ client.ret[1].asset \in
              {<<>>, <<LogoParams(client.format, client.theme, client.type)>>}

\* ---------------------------------------------------- specification: call_tool
InitTool ==
  /\ CounterQuiet
  /\ LogoQuiet
  /\ SemQuiet
  /\ NormQuiet
  /\ ClientQuiet
  /\ ToolQuiet
  /\ CopQuiet

NextTool ==
  \E n \in ToolNames, a \in ToolArgs, o \in ClientOutcomes, r \in ToolLookupResults :
    CallTool(n, a, o, r)

SpecTool == InitTool /\ [][NextTool]_vars

\* the call failed: unknown tool, unusable arguments, an exception of the
\* client or the orchestrator, or an error result of the orchestrator
C16_Failed ==
  \/ tool.name = "no_such_tool"
  \/ ~tool.args.isdict
  \/ /\ tool.name \in {"get_brand_details", "get_brand_logo", "get_brand_colors"}
     /\ (tool.args.domain = "absent" \/ tool.outcome # "returns")
  \/ /\ tool.name = "search_brands"
     /\ (tool.args.query = "absent" \/ tool.outcome # "returns")
  \/ /\ tool.name = "get_logo_url"
     /\ \/ (tool.args.domain # "set" /\ tool.args.name # "set")
        \/ tool.result[1].kind # "ok"

\* C16: call_tool raises nothing: for every tool name, arguments object and
\* exception of the callee it returns exactly one text item, and the text of
\* a failed call starts with the failure marker.
C16_OneTextItem ==
  tool.pc = "done" =>
    /\ ~tool.ret[1].raised
    /\ Len(tool.ret[1].items) = 1
    /\ tool.ret[1].items[1].type = "text"
    /\ C16_Failed => tool.ret[1].items[1].text[1] = FailureMarker

C16_Witness ==
  /\ tool.pc = "done"
  /\ tool.name = "get_brand_details"
  /\ tool.args = Args(TRUE, "absent", "absent", "absent")
  /\ tool.ret[1].items[1].text[1] = FailureMarker
  /\ tool.ret[1].items[1].text[3] = "Unexpected error executing "

\* ------------------------------------------ specification: LogoLookupCache
\* get and set called on one cache, with or without a Redis client; entries
\* leave either tier when their TTL ends
InitCache ==
  /\ CounterQuiet
  /\ live = {}
  /\ lenv \in [redis : BOOLEAN, api_key : {FALSE}]
  /\ cache_mem = <<>>
  /\ cache_redis = <<>>
  /\ task = LIdle
  /\ lcalls = 0
  /\ AppQuiet

NextCache ==
  \/ \E k \in CacheKeys, ok \in BOOLEAN : CacheGetCall(k, ok)
  \/ \E k \in CacheKeys, v \in CacheValues, ok \in BOOLEAN : CacheSetCall(k, v, ok)
  \/ \E k \in DOMAIN cache_mem : ExpireMemory(k)
  \/ \E k \in DOMAIN cache_redis : ExpireRedis(k)

SpecCache == InitCache /\ [][NextCache]_vars

\* the Redis store answers the read of the key with an entry
C20_RedisHit(key, redisOk) ==
  lenv.redis /\ redisOk /\ (RedisPrefix \o key) \in DOMAIN cache_redis

C20_Get ==
  [][ (cop'.n = cop.n + 1 /\ cop'.op = "get") =>
        /\ cache_mem' = cache_mem
        /\ cache_redis' = cache_redis
        /\ cop'.ret =
             IF C20_RedisHit(cop'.key, cop'.redisOk)
             THEN <<Eval(cache_redis[RedisPrefix \o cop'.key])>>
             ELSE IF cop'.key \in DOMAIN cache_mem THEN <<cache_mem[cop'.key]>>
             ELSE <<>> ]_vars

C20_Set ==
  [][ (cop'.n = cop.n + 1 /\ cop'.op = "set") =>
        /\ cop'.key \in DOMAIN cache_mem'
        /\ cache_mem'[cop'.key] = cop'.value[1]
        /\ IF lenv.redis /\ cop'.redisOk
           THEN /\ (RedisPrefix \o cop'.key) \in DOMAIN cache_redis'
                /\ Eval(cache_redis'[RedisPrefix \o cop'.key]) = cop'.value[1]
           ELSE cache_redis' = cache_redis ]_vars

\* C20: get returns the entry of the Redis store when that store answers with
\* one, and the entry of the in-process map (or None) when there is no Redis
\* client, the Redis call raised or Redis has no entry (C20_Get); set writes
\* the in-process map always and Redis when it is there and does not raise
\* (C20_Set); every call ends, whatever Redis does.
C20_TwoTiers == C20_Get /\ C20_Set

C20_Witness ==
  /\ cop.op = "get"
  /\ cop.redisOk
  /\ cop.ret = <<Entry(<<>>, SourceNone)>>
  /\ cop.key \in DOMAIN cache_mem
  /\ cache_mem[cop.key] = Entry(<<CdnUrl(DomOther)>>, SourceCdn)

\* ----------------------------------------- claims: input rejected early
\* the argument is no domain: _normalize_domain raises on it, or what it
\* leaves has no '.' or fewer than MinDomainLen characters
C21_InvalidDomain(arg) ==
  LET n == _normalize_domain(arg) IN
  \/ ~n.ok
  \/ ~Contains(n.value, <<".">>)
  \/ Len(n.value) < MinDomainLen

\* C21: a get_brand or get_brand_logo call with an invalid domain fails at
\* once: it ends with an error, sends no request and does not call the lookup.
C21_InvalidRejectedEarly ==
  ( /\ client.op \in {"get_brand", "get_brand_logo"}
    /\ C21_InvalidDomain(client.arg) ) =>
      /\ client.pc = "done"
      /\ ~client.ret[1].ok
      /\ client.nReq = 0
      /\ client.lookup = <<>>

\* ------------------------------- claims: get_logo_url (SpecLogo), continued
\* a call that was given a domain and missed the cache
C22_DomainMiss ==
  /\ Truthy(task.domain)
  /\ task.pc \in {"probe_domain", "heur", "search", "reprobe", "cache_set", "done"}
  /\ ~task.hit

\* C22: a call given a domain (with or without a name) that misses the cache
\* probes the CDN once, for that domain, uses no heuristic candidate and no
\* search, and returns (CDN url of the domain, cdn_domain) when the probe
\* found the logo and (None, none) when it did not.
C22_OneProbeForDomain ==
  C22_DomainMiss =>
    /\ task.pc \in {"probe_domain", "cache_set", "done"}
    /\ task.nSearch = 0
    /\ Len(task.probes) = (IF task.pc = "probe_domain" THEN 0 ELSE 1)
    /\ \A i \in DOMAIN task.probes :
         task.probes[i].domain = task.domain[1] /\ task.probes[i].phase = "domain"
    /\ task.pc = "done" =>
         task.ret = <<IF task.lastProbe = "found"
                      THEN Entry(<<CdnTemplate \o task.domain[1]>>, SourceCdn)
                      ELSE Entry(<<>>, SourceNone)>>

C22_Witness ==
  /\ C22_DomainMiss
  /\ task.pc = "done"
  /\ Truthy(task.name)
  /\ task.lastProbe = "found"
  /\ task.ret = <<Entry(<<CdnTemplate \o DomOther>>, SourceCdn)>>

\* the awaits a running call can still make, counted from its position: the
\* cache read, the probes, the search, the cache write
C29_Remaining ==
  CASE task.pc = "cache_get" -> 9
    [] task.pc = "heur" -> 9 - task.idx
    [] task.pc = "search" -> 3
    [] task.pc \in {"probe_domain", "reprobe"} -> 2
    [] task.pc = "cache_set" -> 1
    [] OTHER -> 0

C29_Counts ==
  LET n(phase) == Cardinality({i \in DOMAIN task.probes : task.probes[i].phase = phase}) IN
  /\ Len(task.probes) <= 6
  /\ n("heuristic") <= 5
  /\ n("search") <= 1
  /\ n("domain") <= 1
  /\ Truthy(task.domain) => Len(task.probes) <= 1
  /\ task.nSearch <= 1
  /\ task.nSet <= 1
  /\ C29_Remaining >= 0

C29_Step ==
  (task.pc \notin {"idle", "done"} /\ task' # task) =>
     /\ task'.pc # "idle"
     /\ C29_Remaining' < C29_Remaining

\* C29: a get_logo_url call makes at most 6 CDN probes (1 with a domain; up
\* to 5 heuristic ones and 1 for the domain the search found), at most 1
\* search and 1 cache write (C29_Counts); every step of a running call lowers
\* the number of awaits still possible, which is 9 at the cache read, so the
\* cache is read once and the call ends after at most 9 steps (C29_Step).
C29_BoundedWork == []C29_Counts /\ [][C29_Step]_vars

C29_Witness ==
  /\ task.pc = "done"
  /\ Len(task.probes) = 6
  /\ task.nSearch = 1
  /\ task.nSet = 1
  /\ task.probes[6].phase = "search"

\* ------------------- specification: concurrent get_logo_for_domain calls
\* invocations of several tasks or processes on one usage database, started
\* in a month whose stored count is within the limit
ConcLogoReplies == { NetworkError, Reply("200", <<UrlAcme>>, JsonEmpty) }

InitConc ==
  /\ InitCounter
  /\ CountOf(row) <= BRAND_API_MONTH_LIMIT
  /\ LogoQuiet
  /\ AppQuiet
  /\ env = [LOGO_API_KEY |-> TRUE, BRAND_API_KEY |-> TRUE]

NextConc ==
  \/ \E p \in Procs : Start(p, DomAcme, <<>>)
  \/ \E p \in Procs, r \in ConcLogoReplies : CallLogoApi(p, r)
  \/ \E p \in Procs : GetBrandCount(p)
  \/ \E p \in Procs, r \in BrandReplies : CallBrandApiSearch(p, r)
  \/ \E p \in Procs : IncSelect(p)
  \/ \E p \in Procs : IncWrite(p)
  \/ \E p \in Procs : PickBest(p)
  \/ \E p \in Procs : Finish(p)

SpecConc == InitConc /\ [][NextConc]_vars

\* C23: with concurrent invocations on one counter, the searches answered in
\* the month (those before the behaviour and those in it) never number more
\* than BRAND_API_MONTH_LIMIT, and the stored count never exceeds the limit.
C23_QuotaUnderConcurrency ==
  /\ hist.init + hist.responded <= BRAND_API_MONTH_LIMIT
  /\ CountOf(row) <= BRAND_API_MONTH_LIMIT

\* ------------------------- claims: get_logo_for_domain (Spec), continued
\* a domain / host field of the logo-by-domain response names the target
C24_JsonNamesDomain(domain, json) ==
  /\ json.isdict
  /\ \/ FieldsMatch(domain, json.top)
     \/ DataOf(json) # <<>> /\ FieldsMatch(domain, DataOf(json)[1])

\* C24: a result with source domain-logo carries a candidate of the
\* logo-by-domain response that contains the target domain itself, unless a
\* domain / host field of the response JSON matched the target domain.
C24_DomainLogoIsOfDomain ==
  \A p \in Procs :
    LET me == proc[p] IN
    ( /\ me.op = "logo"
      /\ me.pc = "done"
      /\ me.result[1].source = "domain-logo" ) =>
        /\ \E i \in DOMAIN me.dresp[1].candidates :
             me.result[1].logo_url = <<me.dresp[1].candidates[i]>>
        /\ \/ Contains(Lower(me.result[1].logo_url[1]), me.domain)
           \/ C24_JsonNamesDomain(me.domain, me.dresp[1].json)

\* C25: a result that follows an answered brand search (brand-search or
\* no_logo_found) carries the warning exactly when the count read before the
\* search was at or above BRAND_API_WARN_THRESHOLD, and that count was below
\* the limit; a domain-logo result and a brand_api_limit_reached result have
\* no warning.
C25_WarningIffNearLimit ==
  \A p \in Procs :
    LET me == proc[p] IN
    (me.op = "logo" /\ me.pc = "done") =>
      LET r == me.result[1] IN
      /\ (r.source = "brand-search" \/ r.error = "no_logo_found") =>
           /\ me.current_count = CountOf(me.row0)
           /\ me.current_count < BRAND_API_MONTH_LIMIT
           /\ r.warning \in {"warning", "None"}
           /\ r.warning = "warning" <=> me.current_count >= BRAND_API_WARN_THRESHOLD
      /\ (r.source = "domain-logo" \/ r.error = "brand_api_limit_reached") =>
           r.warning = "absent"

C25_Witness ==
  \E p \in Procs :
    /\ proc[p].pc = "done"
    /\ proc[p].result[1].source = "brand-search"
    /\ proc[p].result[1].warning = "warning"
    /\ proc[p].current_count = BRAND_API_WARN_THRESHOLD
    /\ proc[p].result[1].count = <<BRAND_API_WARN_THRESHOLD + 1>>

\* --------------------------- claims: _normalize_domain (SpecNorm), continued
\* C26: _normalize_domain applied to a value it returned succeeds and returns
\* that value again.
C26_Idempotent ==
  (norm.pc = "done" /\ norm.out[1].ok) =>
    _normalize_domain(norm.out[1].value) = Returned(norm.out[1].value)

\* C27: a result with source brand-search follows a brand search that was
\* answered with a success status; an answer with an error status (401, 429,
\* 5xx) gives no logo_url.
C27_BrandSearchOnlyOnSuccess ==
  \A p \in Procs :
    LET me == proc[p] IN
    (me.op = "logo" /\ me.pc = "done" /\ me.bresp # <<>>) =>
      /\ me.result[1].source = "brand-search" => me.bresp[1].status_code = "200"
      /\ me.bresp[1].status_code \in {"401", "429", "500"} => me.result[1].logo_url = <<>>

\* ---------------------------- claims: LogoLookupCache (SpecCache), continued
\* C28: a get of a key returns the value of the latest set of that key, as
\* long as the entry that set wrote has not expired from the in-process map,
\* whatever sets came before and whether Redis is absent, working or failing.
C28_ReadYourWrite ==
  ( /\ cop.op = "get"
    /\ cop.key \in DOMAIN cop.last
    /\ cop.key \in DOMAIN cache_mem ) =>
      cop.ret = <<cop.last[cop.key]>>

\* ------------------ specification: the search-API semaphore, with fairness
\* every task calls _search_brandfetch_api once; tasks are numbered in the
\* order of their calls.  Every request in flight is answered or times out
\* (httpx.Timeout(10.0)), and release() wakes a task waiting in acquire()
SemFairness ==
  \A t \in Tasks :
    /\ WF_vars(SemAcquire(t))
    /\ WF_vars(\E r \in SemReplies : SearchReplied(t, r))

NextSemFair ==
  \/ \E t \in Tasks : (\A u \in 1..(t - 1) : stask[u].pc # "idle") /\ SearchEnter(t)
  \/ \E t \in Tasks : SemAcquire(t)
  \/ \E t \in Tasks, r \in SemReplies : SearchReplied(t, r)

SpecSemFair == InitSem /\ [][NextSemFair]_vars /\ SemFairness

\* the slots taken are those of the requests in flight
C30_Held == sem + Cardinality(InFlight) = SemaphoreSlots

C30_EveryWaiterAcquires ==
  \A t \in Tasks : (stask[t].pc = "acquire") ~> (stask[t].pc = "request")

\* C30: the slot taken by _search_brandfetch_api is given back on every way
\* out of the request (result, empty result, HTTP error, timeout): the slots
\* held are exactly those of the requests in flight, 0 when there is none, and
\* every task waiting on the semaphore gets a slot in the end.
C30_SlotAlwaysReleased == []C30_Held /\ C30_EveryWaiterAcquires

C30_Witness ==
  /\ InFlight = {}
  /\ sem = SemaphoreSlots
  /\ \A t \in Tasks : stask[t].pc = "done"
  /\ \E t \in Tasks : stask[t].found # <<>>
  /\ \E t \in Tasks : stask[t].found = <<>>

====
